---------------------------- MODULE Spec2Model ----------------------------
(***************************************************************************)
(* Media arbitration engine of the Auto-Stop Media extension               *)
(* (extension/background/index.js, class MediaManager, current revision,   *)
(* lines 1445-2611) together with the part of the desktop connector that   *)
(* calls into it.                                                          *)
(*                                                                         *)
(* Handlers are JavaScript async functions.  A handler runs without        *)
(* interruption up to an `await browser.tabs.sendMessage(...)`; there it   *)
(* is suspended, other events are processed, and it continues when the     *)
(* delivery settles.  Each such continuation is kept in `tasks`.  Awaits   *)
(* of functions that never wait for a delivery only defer by a microtask   *)
(* and are modelled as part of the same step.                              *)
(*                                                                         *)
(* Time.  The code compares Date.now() with stored timestamps.  Every      *)
(* stored timestamp is represented by the outcome of the comparison the    *)
(* code makes with it, and an action of its own moves it when the          *)
(* corresponding window has elapsed:                                       *)
(*   recentPlayEvents[m]   TRUE while now - lastPlayTime < 300 ms          *)
(*   entry.pausedRecently  TRUE while now - pausedAt < 500 ms              *)
(*   activeMedia.age       0 while now - startedAt < 1500 ms,              *)
(*                         2 once (now - startedAt)/1000 >= the expiry     *)
(*                         threshold, 1 in between                         *)
(*   activeMedia.stale     TRUE once now - lastHeartbeat > 5000 ms         *)
(*                                                                         *)
(* Media ids are unique (generateMediaId), so a (tabId, frameId, mediaId)  *)
(* triple is determined by its mediaId; TabOf gives the tab of a browser   *)
(* media.  A record spread from a null activeMedia has no mediaId: its id  *)
(* is Undefined.                                                           *)
(***************************************************************************)
EXTENDS Naturals, Integers, Sequences, FiniteSets, TLC

\* ------------------------------------------------------------------ bounds
MaxEvents == 3      \* external events (reports, commands, snapshots) per run
MaxTasks == 1       \* handlers suspended on a delivery at the same time
MaxRaceEvents == 4  \* external events per run of SpecRace
MaxBrowserEvents == 4  \* external events per run of SpecBrowser
MaxExpiryEvents == 5   \* external events per run of SpecExpiry
MaxStack == 3          \* entries of the Paused History SpecSchedule starts from
MaxScheduleEvents == 2 \* external events per run of SpecSchedule
MaxResumeEvents == 5   \* external events per run of SpecResume
MaxDesktopEvents == 5  \* external events per run of SpecDesktop
MaxStaleEvents == 3    \* external events per run of SpecStale
MaxLinkEvents == 3     \* external events per run of SpecLink
MaxCancelEvents == 5   \* external events per run of SpecCancel
MaxPromoteEvents == 6  \* external events per run of SpecPromote
MaxFadeCutEvents == 8  \* external events per run of SpecFadeCut
MaxLinkTimers == 2     \* reconnect timeouts armed at the same time
MaxClosing == 1        \* closed sockets whose close event is still to come

\* ------------------------------------------------------- program constants
FadeSteps == 20             \* const fadeSteps = 20
OriginalVolume == 1         \* originalVolumes.get(mediaId) || 1: the map is never written
AutoExpireThreshold == 120  \* the autoExpireSeconds of the README's example

\* ------------------------------------------------- IEEE-754 double volumes
\* Volumes are JavaScript numbers.  A double v with 0 <= v <= 1 is kept as
\* the natural number v * 2^FractionBits, written in base LimbBase with the
\* least significant limb first; every double of 2^-11 or more is a whole
\* number of these units, and the volumes of a fade are such doubles or 0.
\* Each arithmetic operation is the exact operation followed by rounding to
\* 53 significant bits, ties to even.
LimbBase == 65536
LimbBits == 16
NumLimbs == 5
FractionBits == 64
SignificandBits == 53

Pow2(n) == 2^n

\* JavaScript evaluates the operands of an operation once, before the
\* operation: Operands2 is the operation F on the values of x and y
Value(S) == CHOOSE v \in S : TRUE
Operands2(F(_, _), x, y) == Value({F(v, w) : v \in {x}, w \in {y}})

\* the number of bits of n < LimbBase
BitLenSmall(n) ==
  CHOOSE b \in 0..LimbBits :
    n < Pow2(b) /\ (b = 0 \/ n >= Pow2(b - 1))

\* the number n < LimbBase, in limbs
Limbs(n) == [i \in 1..NumLimbs |-> IF i = 1 THEN n ELSE 0]

\* the double 1.0
One == [i \in 1..NumLimbs |-> IF i = NumLimbs THEN 1 ELSE 0]

\* x * k for a small k
MulLimbs(x, k) ==
  LET carry[i \in 0..NumLimbs] ==
        IF i = 0 THEN 0 ELSE (x[i] * k + carry[i - 1]) \div LimbBase
  IN [i \in 1..NumLimbs |-> (x[i] * k + carry[i - 1]) % LimbBase]

MulSmall(x, k) == Operands2(MulLimbs, x, k)

\* quotient and remainder of x by a small d
DivLimbs(x, d) ==
  LET rem[i \in 1..(NumLimbs + 1)] ==
        IF i = NumLimbs + 1 THEN 0 ELSE (rem[i + 1] * LimbBase + x[i]) % d
  IN [quot |-> [i \in 1..NumLimbs |-> (rem[i + 1] * LimbBase + x[i]) \div d],
      rem |-> rem[1]]

DivSmall(x, d) == Operands2(DivLimbs, x, d)

AddLimbs(x, y) ==
  LET carry[i \in 0..NumLimbs] ==
        IF i = 0 THEN 0 ELSE (x[i] + y[i] + carry[i - 1]) \div LimbBase
  IN [i \in 1..NumLimbs |-> (x[i] + y[i] + carry[i - 1]) % LimbBase]

Add(x, y) == Operands2(AddLimbs, x, y)

\* x - y for x >= y
SubLimbs(x, y) ==
  LET borrow[i \in 0..NumLimbs] ==
        IF i = 0 THEN 0
        ELSE IF x[i] - y[i] - borrow[i - 1] < 0 THEN 1 ELSE 0
  IN [i \in 1..NumLimbs |->
        (x[i] - y[i] - borrow[i - 1] + LimbBase) % LimbBase]

Sub(x, y) == Operands2(SubLimbs, x, y)

\* x < y
LessLimbs(x, y) ==
  \E i \in 1..NumLimbs :
    x[i] < y[i] /\ \A j \in (i + 1)..NumLimbs : x[j] = y[j]

Less(x, y) == Operands2(LessLimbs, x, y)

\* the number of bits of x
BitLen(x) ==
  IF \A i \in 1..NumLimbs : x[i] = 0 THEN 0
  ELSE LET top == CHOOSE i \in 1..NumLimbs :
                    x[i] # 0 /\ \A j \in (i + 1)..NumLimbs : x[j] = 0
       IN LimbBits * (top - 1) + BitLenSmall(x[top])

\* the quotient q of x by d with remainder r, rounded to 53 significant
\* bits, ties to even
RoundQuotient(q, r, d) ==
  LET len == BitLen(q)
      g == IF len > SignificandBits THEN len - SignificandBits ELSE 0
      h == DivLimbs(q, Pow2(g))
      rest == h.rem * d + r
      half == d * Pow2(g)
      up == \/ 2 * rest > half
            \/ 2 * rest = half /\ h.quot[1] % 2 = 1
  IN MulSmall(IF up THEN Add(h.quot, Limbs(1)) ELSE h.quot, Pow2(g))

\* the double nearest to x / d, ties to even
RoundDiv(x, d) ==
  Value({RoundQuotient(e.quot, e.rem, d) : e \in {DivSmall(x, d)}})

\* --------------------------------------------------------------- universe
Browser == {"m1", "m2", "m3"}
Desktop == {"desktop-1"}
Undefined == "undefined"
MediaIds == Browser \cup Desktop

TabOf(m) == IF m \in {"m1", "m2"} THEN 1 ELSE IF m = "m3" THEN 2 ELSE 0
Tabs == {1, 2}

Null == [mediaId |-> "null"]
IsNull(x) == x = Null

\* MediaManager.isDesktopMedia
IsDesktopMedia(media) == media.mediaId \in Desktop

VARIABLES
  activeMedia,       \* this.activeMedia: Null or [mediaId, age, stale]
  pausedStack,       \* this.pausedStack: sequence of paused entries
  allMedia,          \* this.allMedia: the registered browser media (keys)
  pendingResume,     \* this.pendingResume: Null or [timeoutId, media, fadeInterval]
  recentPlayEvents,  \* this.recentPlayEvents, as the cooldown comparison
  resumeTimers,      \* armed setTimeout callbacks of scheduleResumePrevious
  fadeTimers,        \* running setInterval callbacks of playMediaWithFadeIn
  tasks,             \* handlers suspended at an await of a delivery
  settings,          \* window.storageManager.get()
  desktopState,      \* DesktopConnector.desktopState
  connected,         \* DesktopConnector.connected
  pauseDebounce,     \* DesktopConnector._pauseDebounceTimer: Null or prevActive
  link,              \* DesktopConnector's socket, reconnect and ping state
  emitted,           \* control intents sent by the last step, in order
  broadcast,         \* the last step called broadcastUpdate
  threw,             \* the last step ended in an uncaught exception
  lastOp,            \* the operation the last step ran, with its arguments
  unpaused,          \* sources whose latest report is a play and that were
                     \* sent no pause intent since
  volumes,           \* the volume last sent to each browser source by setVolume
  eventsLeft         \* external events the run may still take

engineVars == <<activeMedia, pausedStack, allMedia, pendingResume,
                recentPlayEvents, resumeTimers, fadeTimers, tasks>>
vars == <<activeMedia, pausedStack, allMedia, pendingResume, recentPlayEvents,
          resumeTimers, fadeTimers, tasks, settings, desktopState, connected,
          pauseDebounce, link, emitted, broadcast, threw, lastOp, unpaused, volumes,
          eventsLeft>>

\* ------------------------------------------------------------ the store
\* A handler is a function from the engine state to the engine state; St is
\* the state a step starts from, with nothing emitted yet.
St ==
  [activeMedia |-> activeMedia, pausedStack |-> pausedStack,
   allMedia |-> allMedia, pendingResume |-> pendingResume,
   recentPlayEvents |-> recentPlayEvents, resumeTimers |-> resumeTimers,
   fadeTimers |-> fadeTimers, tasks |-> tasks,
   emitted |-> <<>>, broadcast |-> FALSE, threw |-> FALSE]

Intent(action, mediaId, volume) ==
  [action |-> action, mediaId |-> mediaId, volume |-> volume]

Emit(s, action, mediaId, volume) ==
  [s EXCEPT !.emitted = Append(@, Intent(action, mediaId, volume))]

\* MediaManager.broadcastUpdate
BroadcastUpdate(s) == [s EXCEPT !.broadcast = TRUE]

Throw(s) == [s EXCEPT !.threw = TRUE]

\* a paused entry; pausedAt is kept as the outcome of now - pausedAt < 500
Entry(mediaId, manuallyPaused, expired, pausedRecently) ==
  [mediaId |-> mediaId, manuallyPaused |-> manuallyPaused,
   expired |-> expired, pausedRecently |-> pausedRecently]

\* pausedStack.filter(m => !(same tabId, frameId, mediaId))
FilterOut(stack, mediaId) == SelectSeq(stack, LAMBDA e : e.mediaId # mediaId)

\* pausedStack.findIndex(m => same tabId, frameId, mediaId); 0 when absent
IndexOf(stack, mediaId) ==
  IF \E i \in 1..Len(stack) : stack[i].mediaId = mediaId
  THEN CHOOSE i \in 1..Len(stack) :
         /\ stack[i].mediaId = mediaId
         /\ \A j \in 1..(i - 1) : stack[j].mediaId # mediaId
  ELSE 0

\* pausedStack.splice(index, 1)
Splice(stack, index) ==
  [i \in 1..(Len(stack) - 1) |-> IF i < index THEN stack[i] ELSE stack[i + 1]]

\* the smallest timer id not in use
UsedIds(s) ==
  {t.id : t \in s.resumeTimers} \cup {f.id : f \in s.fadeTimers}
    \cup {k.timer : k \in s.tasks}
    \cup (IF IsNull(s.pendingResume) THEN {}
          ELSE {s.pendingResume.timeoutId, s.pendingResume.fadeInterval})
FreshId(s) == CHOOSE i \in 1..(Cardinality(UsedIds(s)) + 1) :
                /\ i \notin UsedIds(s)
                /\ \A j \in 1..(i - 1) : j \in UsedIds(s)


\* ------------------------------------------------ cancel / select / schedule
\* a mutant of CancelPendingResume: the cancelled target is never put back
CancelPendingResumeDropsTarget(s, putBackInStack) ==
  IF IsNull(s.pendingResume) THEN s
  ELSE
    LET p == s.pendingResume
        s1 == [s EXCEPT !.resumeTimers = {t \in @ : t.id # p.timeoutId},
                        !.fadeTimers = {f \in @ : f.id # p.fadeInterval},
                        !.pendingResume = Null]
    IN IF ~IsDesktopMedia(p.media) /\ p.media.mediaId \notin s.allMedia
       THEN [s1 EXCEPT !.threw = putBackInStack]
       ELSE IF IsDesktopMedia(p.media) THEN s1
       ELSE Emit(s1, "setVolume", p.media.mediaId, MulSmall(One, OriginalVolume))

\* a mutant of CancelPendingResume: this.pendingResume is read without the
\* guard of the first line
CancelPendingResumeUnguarded(s, putBackInStack) ==
  IF IsNull(s.pendingResume) THEN [s EXCEPT !.threw = putBackInStack]
  ELSE [s EXCEPT !.resumeTimers = {t \in @ : t.id # s.pendingResume.timeoutId},
                 !.fadeTimers = {f \in @ : f.id # s.pendingResume.fadeInterval},
                 !.pendingResume = Null]

\* MediaManager.cancelPendingResume.  resetVolume -> setMediaVolume runs
\* synchronously up to its delivery.  When the target is not in allMedia,
\* setMediaVolume calls cancelPendingResume(false) while this.pendingResume is
\* still set, which calls resetVolume again, and so on until the call stack is
\* exhausted; that error rejects the promise of an inner async frame, and the
\* frames that unwind have each set pendingResume to null.  The outermost frame
\* then evaluates `putBackInStack && this.pendingResume.media` on null.
CancelPendingResume(s, putBackInStack) ==
  IF IsNull(s.pendingResume) THEN s
  ELSE
    LET p == s.pendingResume
        s1 == [s EXCEPT !.resumeTimers = {t \in @ : t.id # p.timeoutId},
                        !.fadeTimers = {f \in @ : f.id # p.fadeInterval}]
    IN IF ~IsDesktopMedia(p.media) /\ p.media.mediaId \notin s.allMedia
       THEN [s1 EXCEPT !.pendingResume = Null, !.threw = putBackInStack]
       ELSE
         LET s2 == IF IsDesktopMedia(p.media) THEN s1
                   ELSE Emit(s1, "setVolume", p.media.mediaId,
                             MulSmall(One, OriginalVolume))
             alreadyInStack == IndexOf(s2.pausedStack, p.media.mediaId) # 0
         IN [s2 EXCEPT !.pausedStack =
                          IF putBackInStack /\ ~alreadyInStack
                          THEN <<p.media>> \o @ ELSE @,
                       !.pendingResume = Null]

\* a mutant of NextAutoResumable: the expired flag is not looked at
NextAutoResumableIgnoresExpired(stack, excludeMediaId) ==
  LET ok(i) == ~stack[i].manuallyPaused /\ stack[i].mediaId # excludeMediaId
  IN IF \E i \in 1..Len(stack) : ok(i)
     THEN CHOOSE i \in 1..Len(stack) : ok(i) /\ \A j \in 1..(i - 1) : ~ok(j)
     ELSE 0

\* a mutant of NextAutoResumable: the last eligible entry instead of the first
NextAutoResumableLast(stack, excludeMediaId) ==
  LET ok(i) == /\ ~stack[i].manuallyPaused
               /\ ~stack[i].expired
               /\ stack[i].mediaId # excludeMediaId
  IN IF \E i \in 1..Len(stack) : ok(i)
     THEN CHOOSE i \in 1..Len(stack) :
            ok(i) /\ \A j \in (i + 1)..Len(stack) : ~ok(j)
     ELSE 0

\* the index findNextAutoResumable finds; 0 when there is none
NextAutoResumable(stack, excludeMediaId) ==
  LET ok(i) == /\ ~stack[i].manuallyPaused
               /\ ~stack[i].expired
               /\ stack[i].mediaId # excludeMediaId
  IN IF \E i \in 1..Len(stack) : ok(i)
     THEN CHOOSE i \in 1..Len(stack) : ok(i) /\ \A j \in 1..(i - 1) : ~ok(j)
     ELSE 0

\* settings.autoExpireSeconds > 0 and playDuration >= settings.autoExpireSeconds;
\* a stoppedMedia without startedAt has played 0 seconds
AutoExpired(stoppedMedia) ==
  /\ ~IsNull(stoppedMedia)
  /\ settings.autoExpireSeconds > 0
  /\ stoppedMedia.age = 2

\* a mutant of ScheduleResumePrevious: the manual-pause policy is not read
ScheduleResumePreviousAnyPause(s, stoppedMedia, wasManualPause) ==
  LET s1 == CancelPendingResume(s, TRUE)
      index == NextAutoResumable(s1.pausedStack,
                 IF IsNull(stoppedMedia) THEN Undefined ELSE stoppedMedia.mediaId)
      id == FreshId(s1)
  IN IF s1.threw THEN s1
     ELSE IF AutoExpired(stoppedMedia)
     THEN BroadcastUpdate([s1 EXCEPT !.pausedStack =
            [i \in 1..Len(@) |-> [@[i] EXCEPT !.expired = TRUE]]])
     ELSE IF index = 0
     THEN BroadcastUpdate(s1)
     ELSE BroadcastUpdate(
            [s1 EXCEPT !.pausedStack = Splice(@, index),
                       !.resumeTimers = @ \cup
                          {[id |-> id, media |-> s1.pausedStack[index]]},
                       !.pendingResume =
                          [timeoutId |-> id, media |-> s1.pausedStack[index],
                           fadeInterval |-> 0]])

\* MediaManager.scheduleResumePrevious(null, stoppedMedia, wasManualPause)
ScheduleResumePrevious(s, stoppedMedia, wasManualPause) ==
  LET s1 == CancelPendingResume(s, TRUE)
      index == NextAutoResumable(s1.pausedStack,
                 IF IsNull(stoppedMedia) THEN Undefined ELSE stoppedMedia.mediaId)
      id == FreshId(s1)
  IN IF s1.threw THEN s1
     ELSE IF AutoExpired(stoppedMedia)
     THEN BroadcastUpdate([s1 EXCEPT !.pausedStack =
            [i \in 1..Len(@) |-> [@[i] EXCEPT !.expired = TRUE]]])
     ELSE IF wasManualPause /\ ~settings.resumeOnManualPause
     THEN BroadcastUpdate(s1)
     ELSE IF index = 0
     THEN BroadcastUpdate(s1)
     ELSE BroadcastUpdate(
            [s1 EXCEPT !.pausedStack = Splice(@, index),
                       !.resumeTimers = @ \cup
                          {[id |-> id, media |-> s1.pausedStack[index]]},
                       !.pendingResume =
                          [timeoutId |-> id, media |-> s1.pausedStack[index],
                           fadeInterval |-> 0]])

\* ---------------------------------------------------------- browser reports
\* MediaManager.handleMediaRegistered
HandleMediaRegistered(s, m, unknown, blacklisted) ==
  IF unknown \/ blacklisted THEN s
  ELSE BroadcastUpdate([s EXCEPT !.allMedia = @ \cup {m}])

\* a mutant of HandleMediaUnregistered: the Paused Entry of m is left in place
HandleMediaUnregisteredKeepsEntry(s, m) ==
  LET s1 == [s EXCEPT !.allMedia = @ \ {m}]
      s2 == IF ~IsNull(s1.pendingResume) /\ s1.pendingResume.media.mediaId = m
            THEN CancelPendingResume(s1, FALSE) ELSE s1
      s4 == IF s2.activeMedia.mediaId = m
            THEN ScheduleResumePrevious([s2 EXCEPT !.activeMedia = Null],
                                        s2.activeMedia, FALSE)
            ELSE s2
  IN IF s4.threw THEN s4 ELSE BroadcastUpdate(s4)

\* MediaManager.handleMediaUnregistered
HandleMediaUnregistered(s, m) ==
  LET s1 == [s EXCEPT !.allMedia = @ \ {m},
                      !.recentPlayEvents =
                         [x \in DOMAIN @ |-> IF x = m THEN FALSE ELSE @[x]]]
      s2 == IF ~IsNull(s1.pendingResume) /\ s1.pendingResume.media.mediaId = m
            THEN CancelPendingResume(s1, FALSE) ELSE s1
      s3 == [s2 EXCEPT !.pausedStack = FilterOut(@, m)]
      s4 == IF s3.activeMedia.mediaId = m
            THEN ScheduleResumePrevious([s3 EXCEPT !.activeMedia = Null],
                                        s3.activeMedia, FALSE)
            ELSE s3
  IN IF s4.threw THEN s4 ELSE BroadcastUpdate(s4)

\* the tail of handleMediaPlay: the new media becomes active
Promote(s, m) ==
  BroadcastUpdate([s EXCEPT !.pausedStack = FilterOut(@, m),
                            !.activeMedia =
                               [mediaId |-> m, age |-> 0, stale |-> FALSE]])

\* desktopState.pausedList.find(m => m.mediaId === id), then .manuallyPaused
DesktopSaysManuallyPaused(mediaId) ==
  LET pl == desktopState.pausedList
      i == IndexOf(pl, mediaId)
  IN i # 0 /\ pl[i].manuallyPaused

\* handleMediaPlay from the end of `await this.pauseActiveMedia()` on.  After
\* a suspension this.activeMedia may have been replaced or cleared: with null
\* the filter callback throws on the first entry; on an empty stack the spread
\* of null is pushed and the log line after it throws.
PushActiveAndPromote(s, m) ==
  LET a == s.activeMedia
      manuallyPaused == IsDesktopMedia(a) /\ DesktopSaysManuallyPaused(a.mediaId)
  IN IF IsNull(a)
     THEN IF s.pausedStack # <<>> THEN Throw(s)
          ELSE Throw([s EXCEPT !.pausedStack =
                        <<Entry(Undefined, FALSE, FALSE, TRUE)>>])
     ELSE Promote([s EXCEPT !.pausedStack =
                     <<Entry(a.mediaId, manuallyPaused, FALSE, TRUE)>>
                       \o FilterOut(@, a.mediaId)], m)

Task(pc, mediaId, prev, timer, step) ==
  [pc |-> pc, mediaId |-> mediaId, prev |-> prev, timer |-> timer, step |-> step]

Suspend(s, task) == [s EXCEPT !.tasks = @ \cup {task}]

\* a mutant of Heartbeat: the heartbeat also stamps startedAt and notifies
HeartbeatRestamps(s) ==
  BroadcastUpdate([s EXCEPT !.activeMedia.stale = FALSE, !.activeMedia.age = 0])

\* handleMediaPlay for the media that is already active: lastHeartbeat is
\* stamped; title, cover, duration and currentTime are not part of the model
Heartbeat(s) == [s EXCEPT !.activeMedia.stale = FALSE]

\* MediaManager.handleMediaPlay, up to its first suspension.  The task keeps
\* the active media of this moment in `prev` for reference only: the code
\* reads this.activeMedia again when it continues.
HandleMediaPlay(s, m, unknown, blacklisted) ==
  LET a == s.activeMedia
      recentlyPaused == \E i \in 1..Len(s.pausedStack) :
                          /\ s.pausedStack[i].mediaId = m
                          /\ ~s.pausedStack[i].manuallyPaused
                          /\ s.pausedStack[i].pausedRecently
      s1 == CancelPendingResume([s EXCEPT !.recentPlayEvents[m] = TRUE], TRUE)
      isRapidScroll == TabOf(a.mediaId) = TabOf(m) /\ a.age = 0
  IN IF unknown THEN s
     ELSE IF a.mediaId = m THEN Heartbeat(s)
     ELSE IF s.recentPlayEvents[m] THEN s
     ELSE IF recentlyPaused THEN s
     ELSE IF s1.threw THEN s1
     ELSE IF blacklisted THEN s1
     ELSE IF IsNull(a) THEN Promote(s1, m)
     ELSE IF isRapidScroll
     THEN Promote([s1 EXCEPT !.pausedStack = FilterOut(@, a.mediaId)], m)
     ELSE IF IsDesktopMedia(a)
     THEN PushActiveAndPromote(
            IF connected THEN Emit(s1, "pause", a.mediaId, 0) ELSE s1, m)
     ELSE Suspend(Emit(s1, "pause", a.mediaId, 0),
                  Task("handleMediaPlay.resumed", m, a, 0, 0))

\* a mutant of HandleMediaPause: the pause of a media that is not active is
\* recorded without looking the media up in allMedia
HandleMediaPauseUnknown(s, m, manual) ==
  LET index == IndexOf(s.pausedStack, m)
      s1 == ScheduleResumePrevious(
              [s EXCEPT !.pausedStack =
                          <<Entry(m, manual, FALSE, FALSE)>> \o FilterOut(@, m),
                        !.activeMedia = Null],
              s.activeMedia, manual)
  IN IF s.activeMedia.mediaId = m
     THEN IF s1.threw THEN s1 ELSE BroadcastUpdate(s1)
     ELSE IF index = 0
     THEN BroadcastUpdate([s EXCEPT !.pausedStack =
                             Append(@, Entry(m, manual, FALSE, FALSE))])
     ELSE IF manual
     THEN BroadcastUpdate([s EXCEPT !.pausedStack[index].manuallyPaused = TRUE])
     ELSE BroadcastUpdate(s)

\* a mutant of HandleMediaPause: the pause of a registered media that is not
\* active adds an entry without looking for the one it already has
HandleMediaPauseAppends(s, m, manual) ==
  LET s1 == ScheduleResumePrevious(
              [s EXCEPT !.pausedStack =
                          <<Entry(m, manual, FALSE, FALSE)>> \o FilterOut(@, m),
                        !.activeMedia = Null],
              s.activeMedia, manual)
  IN IF s.activeMedia.mediaId = m
     THEN IF s1.threw THEN s1 ELSE BroadcastUpdate(s1)
     ELSE IF m \in s.allMedia
     THEN BroadcastUpdate([s EXCEPT !.pausedStack =
                             Append(@, Entry(m, manual, FALSE, FALSE))])
     ELSE BroadcastUpdate(s)

\* MediaManager.handleMediaPause
HandleMediaPause(s, m, manual) ==
  LET index == IndexOf(s.pausedStack, m)
      s1 == ScheduleResumePrevious(
              [s EXCEPT !.pausedStack =
                          <<Entry(m, manual, FALSE, FALSE)>> \o FilterOut(@, m),
                        !.activeMedia = Null],
              s.activeMedia, manual)
  IN IF s.activeMedia.mediaId = m
     THEN IF s1.threw THEN s1 ELSE BroadcastUpdate(s1)
     ELSE IF m \in s.allMedia /\ index = 0
     THEN BroadcastUpdate([s EXCEPT !.pausedStack =
                             Append(@, Entry(m, manual, FALSE, FALSE))])
     ELSE IF m \in s.allMedia /\ manual
     THEN BroadcastUpdate([s EXCEPT !.pausedStack[index].manuallyPaused = TRUE])
     ELSE BroadcastUpdate(s)

\* a mutant of HandleMediaEnded: the end is scheduled as a manual pause
HandleMediaEndedManual(s, m) ==
  LET s1 == ScheduleResumePrevious([s EXCEPT !.activeMedia = Null],
                                   s.activeMedia, TRUE)
  IN IF s.activeMedia.mediaId = m
     THEN IF s1.threw THEN s1 ELSE BroadcastUpdate(s1)
     ELSE BroadcastUpdate(s)

\* MediaManager.handleMediaEnded
HandleMediaEnded(s, m) ==
  LET s1 == ScheduleResumePrevious([s EXCEPT !.activeMedia = Null],
                                   s.activeMedia, FALSE)
  IN IF s.activeMedia.mediaId = m
     THEN IF s1.threw THEN s1 ELSE BroadcastUpdate(s1)
     ELSE BroadcastUpdate(s)

\* MediaManager.handleTabClosed
HandleTabClosed(s, tabId) ==
  LET stoppedMedia == IF ~IsNull(s.activeMedia)
                         /\ ~IsDesktopMedia(s.activeMedia)
                         /\ TabOf(s.activeMedia.mediaId) = tabId
                      THEN s.activeMedia ELSE Null
      s1 == [s EXCEPT !.allMedia = {x \in @ : TabOf(x) # tabId},
                      !.pausedStack =
                         SelectSeq(@, LAMBDA e : TabOf(e.mediaId) # tabId)]
      s2 == IF ~IsNull(s1.pendingResume)
               /\ TabOf(s1.pendingResume.media.mediaId) = tabId
            THEN CancelPendingResume(s1, FALSE) ELSE s1
      s3 == IF IsNull(stoppedMedia) THEN s2
            ELSE ScheduleResumePrevious([s2 EXCEPT !.activeMedia = Null],
                                        stoppedMedia, FALSE)
  IN IF s3.threw THEN s3 ELSE BroadcastUpdate(s3)


\* ------------------------------------------------------------ popup commands
\* MediaManager.controlDesktopMedia
ControlDesktopMedia(s, mediaId, action) ==
  LET s1 == CancelPendingResume(s, TRUE)
      index == IndexOf(s1.pausedStack, mediaId)
      send(x, a) == IF connected THEN Emit(x, a, mediaId, 0) ELSE x
      wasActive == s.activeMedia.mediaId = mediaId
      s2 == IF wasActive
            THEN [s EXCEPT !.pausedStack =
                             <<Entry(mediaId, TRUE, FALSE, FALSE)>>
                               \o FilterOut(@, mediaId),
                           !.activeMedia = Null]
            ELSE s
      s3 == ScheduleResumePrevious(send(s2, "pause"),
              IF wasActive THEN s.activeMedia ELSE Null, TRUE)
  IN CASE action = "play" ->
            IF s1.threw THEN s1
            ELSE BroadcastUpdate(send(
                   [s1 EXCEPT !.pausedStack =
                      IF index # 0 THEN Splice(@, index) ELSE @], "play"))
       [] action = "pause" -> IF s3.threw THEN s3 ELSE BroadcastUpdate(s3)
       [] OTHER -> BroadcastUpdate(send(s, action))

\* MediaManager.controlMedia, up to its first suspension.  Everything between
\* `try` and `catch` that throws is caught and followed by broadcastUpdate.
ControlMedia(s, mediaId, action) ==
  LET s1 == CancelPendingResume(s, TRUE)
      index == IndexOf(s1.pausedStack, mediaId)
      wasActive == s.activeMedia.mediaId = mediaId
      s2 == IF wasActive
            THEN [s EXCEPT !.pausedStack =
                             <<Entry(mediaId, TRUE, FALSE, FALSE)>>
                               \o FilterOut(@, mediaId),
                           !.activeMedia = Null]
            ELSE s
  IN IF mediaId \in Desktop THEN ControlDesktopMedia(s, mediaId, action)
     ELSE CASE action = "play" ->
                 IF s1.threw THEN BroadcastUpdate([s1 EXCEPT !.threw = FALSE])
                 ELSE BroadcastUpdate(Emit(
                        [s1 EXCEPT !.pausedStack =
                           IF index # 0 THEN Splice(@, index) ELSE @],
                        "play", mediaId, 0))
            [] action = "pause" ->
                 Suspend(Emit(s2, "pause", mediaId, 0),
                         Task("controlMedia.resumed", mediaId,
                              IF wasActive THEN s.activeMedia ELSE Null, 0, 0))
            [] OTHER -> BroadcastUpdate(Emit(s, action, mediaId, 0))

\* controlMedia (PAUSE) after `await browser.tabs.sendMessage`
ControlMediaPauseSettled(s, stoppedMedia, delivered) ==
  LET s1 == ScheduleResumePrevious(s, stoppedMedia, TRUE)
  IN IF delivered THEN BroadcastUpdate([s1 EXCEPT !.threw = FALSE])
     ELSE BroadcastUpdate(s)

\* ----------------------------------------------------------- desktop events
\* onDesktopMediaPlay from the end of `await this.pauseActiveMedia()` on
DesktopBecomesActive(s, mediaId) ==
  BroadcastUpdate([s EXCEPT !.pausedStack = FilterOut(@, mediaId),
                            !.activeMedia =
                               [mediaId |-> mediaId, age |-> 0, stale |-> FALSE]])

OnDesktopMediaPlaySettled(s, mediaId, previousMedia) ==
  DesktopBecomesActive(
    [s EXCEPT !.pausedStack =
       <<Entry(previousMedia.mediaId, FALSE, FALSE, TRUE)>> \o @], mediaId)

\* MediaManager.onDesktopMediaPlay, up to its first suspension
OnDesktopMediaPlay(s, mediaId) ==
  LET s1 == CancelPendingResume(s, FALSE)
      a == s1.activeMedia
      s2 == [s1 EXCEPT !.pausedStack = FilterOut(@, a.mediaId)]
  IN IF IsNull(a) \/ a.mediaId = mediaId THEN DesktopBecomesActive(s1, mediaId)
     ELSE IF IsDesktopMedia(a)
     THEN OnDesktopMediaPlaySettled(
            IF connected THEN Emit(s2, "pause", a.mediaId, 0) ELSE s2, mediaId, a)
     ELSE Suspend(Emit(s2, "pause", a.mediaId, 0),
                  Task("onDesktopMediaPlay.resumed", mediaId, a, 0, 0))

\* MediaManager.onDesktopMediaPause
OnDesktopMediaPause(s, mediaId, manuallyPaused) ==
  LET index == IndexOf(s.pausedStack, mediaId)
      s1 == ScheduleResumePrevious(
              [s EXCEPT !.pausedStack =
                          <<Entry(mediaId, manuallyPaused, FALSE, FALSE)>>
                            \o FilterOut(@, mediaId),
                        !.activeMedia = Null],
              s.activeMedia, manuallyPaused)
  IN IF s.activeMedia.mediaId = mediaId
     THEN IF s1.threw THEN s1 ELSE BroadcastUpdate(s1)
     ELSE IF manuallyPaused /\ index # 0
     THEN BroadcastUpdate([s EXCEPT !.pausedStack[index].manuallyPaused = TRUE])
     ELSE BroadcastUpdate(s)

\* MediaManager.onDesktopDisconnected
OnDesktopDisconnected(s) ==
  BroadcastUpdate(
    [s EXCEPT !.activeMedia = IF IsDesktopMedia(@) THEN Null ELSE @,
              !.pausedStack = SelectSeq(@, LAMBDA e : ~IsDesktopMedia(e))])


\* -------------------------------------------------------------- fade-in
\* settings.fadeInStartVolume: the popup stores percent / 100
StartVolume(percent) == RoundDiv(MulSmall(One, percent), 100)

\* const volumeIncrement = (1 - startVolume) / fadeSteps
VolumeIncrement(start) ==
  RoundDiv(RoundDiv(Sub(One, start), 1), FadeSteps)

\* Math.min(1, volume)
Min1(volume) == Value({IF Less(One, v) THEN One ELSE v : v \in {volume}})

\* Math.min(1, startVolume + (volumeIncrement * step)) for the start volume
\* percent / 100
StepVolume(percent, step) ==
  LET sv == StartVolume(percent)
  IN Min1(RoundDiv(Add(sv, RoundDiv(MulSmall(VolumeIncrement(sv), step), 1)), 1))

\* the volumes of every fade the popup can configure (0 to 100 percent)
FadeVolumes ==
  [percent \in 0..100 |-> [step \in 0..FadeSteps |-> StepVolume(percent, step)]]

\* a mutant of FadeVolume: the fade reaches each volume one step late
FadeVolumeLate(startVolume, step) ==
  FadeVolumes[startVolume][IF step = 0 THEN 0 ELSE step - 1]

\* Math.min(1, startVolume + (volumeIncrement * step)); the argument
\* startVolume is settings.fadeInStartVolume in percent, and step 0 is the
\* start volume itself
FadeVolume(startVolume, step) == FadeVolumes[startVolume][step]

\* the part of setMediaVolume that runs when the media is not in allMedia
SetVolumeSkipped(s, mediaId) ==
  IF ~IsNull(s.pendingResume) /\ s.pendingResume.media.mediaId = mediaId
  THEN CancelPendingResume(s, FALSE) ELSE s

\* playMediaWithFadeIn: `browser.tabs.sendMessage(tabId, PLAY)`; a media
\* without a tabId cannot be addressed and the send fails at once
FadeSendPlay(s, mediaId) ==
  IF mediaId = Undefined THEN [s EXCEPT !.pendingResume = Null]
  ELSE Suspend(Emit(s, "play", mediaId, 0), Task("fadePlay", mediaId, Null, 0, 0))

\* playMediaWithFadeIn from `const fadeInterval = setInterval(...)` on
StartFadeInterval(s, mediaId) ==
  LET id == FreshId(s)
  IN [s EXCEPT !.fadeTimers = @ \cup {[id |-> id, mediaId |-> mediaId, step |-> 0]},
               !.pendingResume = IF IsNull(@) THEN @
                                 ELSE [@ EXCEPT !.fadeInterval = id]]

\* the catch clause of setMediaVolume: an unreachable tab unregisters the media
SetVolumeSettled(s, mediaId, outcome) ==
  IF outcome = "unreachable" THEN HandleMediaUnregistered(s, mediaId) ELSE s

\* MediaManager.playMediaWithFadeIn, up to its first suspension
PlayMediaWithFadeIn(s, media) ==
  LET s1 == IF IsNull(s.pendingResume) THEN s
            ELSE [s EXCEPT !.pendingResume.media = media]
      mediaId == media.mediaId
  IN IF IsDesktopMedia(media)
     THEN [(IF connected THEN Emit(s1, "play", mediaId, 0) ELSE s1)
             EXCEPT !.pendingResume = Null]
     ELSE IF settings.fadeInDuration <= 0
     THEN IF mediaId = Undefined THEN [s1 EXCEPT !.pendingResume = Null]
          ELSE Suspend(Emit(s1, "play", mediaId, 0),
                       Task("playNoFade", mediaId, Null, 0, 0))
     ELSE IF mediaId \in s1.allMedia
     THEN Suspend(Emit(s1, "setVolume", mediaId,
                       FadeVolume(settings.fadeInStartVolume, 0)),
                  Task("fadeSetVolume1", mediaId, Null, 0, 0))
     ELSE FadeSendPlay(SetVolumeSkipped(s1, mediaId), mediaId)

\* one run of the setInterval callback, up to its suspension
FadeStep(s, f) ==
  LET others == s.fadeTimers \ {f}
  IN IF f.mediaId \notin s.allMedia
     THEN [s EXCEPT !.fadeTimers = others, !.pendingResume = Null]
     ELSE Suspend(
            Emit([s EXCEPT !.fadeTimers =
                     others \cup {[f EXCEPT !.step = f.step + 1]}],
                 "setVolume", f.mediaId,
                 FadeVolume(settings.fadeInStartVolume, f.step + 1)),
            Task("fadeStep", f.mediaId, Null, f.id, f.step + 1))

\* MediaManager.pingActiveMedia, up to its suspension
PingActiveMedia(s) ==
  LET a == s.activeMedia
  IN IF IsNull(a) \/ IsDesktopMedia(a) THEN s
     ELSE Suspend(Emit(s, "ping", a.mediaId, 0),
                  Task("pingActiveMedia", a.mediaId, a, 0, 0))

\* MediaManager.checkForStaleMedia: staleDuration > 5000 is activeMedia.stale
CheckForStaleMedia(s) ==
  LET a == s.activeMedia
  IN IF IsNull(a) \/ IsDesktopMedia(a) THEN s
     ELSE IF a.stale THEN PingActiveMedia(s) ELSE s

\* pingActiveMedia after the PING settled: only a rejected sendMessage clears
\* the active media, whichever it is by then; the spread of null is {}
PingSettled(s, outcome) ==
  LET a == s.activeMedia
      stoppedMedia == IF IsNull(a)
                      THEN [mediaId |-> Undefined, age |-> 0, stale |-> FALSE]
                      ELSE a
  IN IF outcome = "delivered" THEN s
     ELSE ScheduleResumePrevious(
            BroadcastUpdate([s EXCEPT !.activeMedia = Null]), stoppedMedia, FALSE)

\* a suspended handler continues after its delivery settled
Settle(s, k, outcome) ==
  LET s0 == [s EXCEPT !.tasks = @ \ {k}]
      m == k.mediaId
      v1 == SetVolumeSettled(s0, m, outcome)
  IN CASE k.pc = "handleMediaPlay.resumed" -> PushActiveAndPromote(s0, m)
       [] k.pc = "pingActiveMedia" -> PingSettled(s0, outcome)
       [] k.pc = "onDesktopMediaPlay.resumed" -> OnDesktopMediaPlaySettled(s0, m, k.prev)
       [] k.pc = "controlMedia.resumed" -> ControlMediaPauseSettled(s0, k.prev, outcome = "delivered")
       [] k.pc = "playNoFade" -> [s0 EXCEPT !.pendingResume = Null]
       [] k.pc = "fadeSetVolume1" ->
            IF v1.threw THEN v1 ELSE FadeSendPlay(v1, m)
       [] k.pc = "fadePlay" ->
            IF outcome # "delivered" THEN [s0 EXCEPT !.pendingResume = Null]
            ELSE IF m \in s0.allMedia
            THEN Suspend(Emit(s0, "setVolume", m,
                              FadeVolume(settings.fadeInStartVolume, 0)),
                         Task("fadeSetVolume2", m, Null, 0, 0))
            ELSE StartFadeInterval(SetVolumeSkipped(s0, m), m)
       [] k.pc = "fadeSetVolume2" ->
            IF v1.threw THEN v1 ELSE StartFadeInterval(v1, m)
       [] k.pc = "fadeStep" ->
            IF v1.threw THEN v1
            ELSE IF k.step >= FadeSteps
            THEN [v1 EXCEPT !.fadeTimers = {f \in @ : f.id # k.timer},
                            !.pendingResume = Null]
            ELSE v1


\* ------------------------------------------------------------------ steps
Op(op, mediaId, arg) == [op |-> op, mediaId |-> mediaId, arg |-> arg]

\* the volume of the last setVolume intent for m among intents, else old
LastVolume(intents, m, old) ==
  LET I == {i \in 1..Len(intents) :
              intents[i].action = "setVolume" /\ intents[i].mediaId = m}
  IN IF I = {} THEN old
     ELSE intents[CHOOSE i \in I : \A j \in I : j <= i].volume

PauseTargets(intents) ==
  {intents[i].mediaId : i \in {j \in 1..Len(intents) : intents[j].action = "pause"}}

\* the engine state after a step; plays and stops are the sources whose
\* report (play, or pause/ended/unregister/close) the step processed
Commit(r, op, plays, stops) ==
  /\ Cardinality(r.tasks) <= MaxTasks
  /\ activeMedia' = r.activeMedia
  /\ pausedStack' = r.pausedStack
  /\ allMedia' = r.allMedia
  /\ pendingResume' = r.pendingResume
  /\ recentPlayEvents' = r.recentPlayEvents
  /\ resumeTimers' = r.resumeTimers
  /\ fadeTimers' = r.fadeTimers
  /\ tasks' = r.tasks
  /\ emitted' = r.emitted
  /\ broadcast' = r.broadcast
  /\ threw' = r.threw
  /\ lastOp' = op
  /\ unpaused' = ((unpaused \cup plays) \ stops) \ PauseTargets(r.emitted)
  /\ volumes' = [m \in Browser |-> LastVolume(r.emitted, m, volumes[m])]

Event == eventsLeft > 0 /\ eventsLeft' = eventsLeft - 1
Internal == UNCHANGED eventsLeft
LinkUnchanged ==
  UNCHANGED <<settings, desktopState, connected, pauseDebounce, link>>

\* what isUnknownMedia and isBlacklisted answer for the sender of a report
Policy == {"ok", "unknown", "blacklisted"}

\* MEDIA_REGISTERED from the content script of a source in S
Register(S, P) ==
  \E m \in S, pol \in P :
    /\ Event /\ LinkUnchanged
    /\ Commit(HandleMediaRegistered(St, m, pol = "unknown", pol = "blacklisted"),
              Op("handleMediaRegistered", m, pol), {}, {})

\* MEDIA_UNREGISTERED
Unregister(S) ==
  \E m \in S :
    /\ Event /\ LinkUnchanged
    /\ Commit(HandleMediaUnregistered(St, m),
              Op("handleMediaUnregistered", m, ""), {}, {m})

\* MEDIA_PLAY
Play(S, P) ==
  \E m \in S, pol \in P :
    /\ Event /\ LinkUnchanged
    /\ Commit(HandleMediaPlay(St, m, pol = "unknown", pol = "blacklisted"),
              Op("handleMediaPlay", m, pol), {m}, {})

\* MEDIA_PAUSE
Pause(S, M) ==
  \E m \in S, manual \in M :
    /\ Event /\ LinkUnchanged
    /\ Commit(HandleMediaPause(St, m, manual),
              Op("handleMediaPause", m, IF manual THEN "manual" ELSE "auto"),
              {}, {m})

\* MEDIA_ENDED
Ended(S) ==
  \E m \in S :
    /\ Event /\ LinkUnchanged
    /\ Commit(HandleMediaEnded(St, m),
              Op("handleMediaEnded", m,
                 IF activeMedia.mediaId = m THEN "active" ELSE ""), {}, {m})

\* browser.tabs.onRemoved
TabClosed(T) ==
  \E tabId \in T :
    /\ Event /\ LinkUnchanged
    /\ Commit(HandleTabClosed(St, tabId),
              Op("handleTabClosed", "", IF tabId = 1 THEN "tab1" ELSE "tab2"),
              {}, {m \in Browser : TabOf(m) = tabId})

\* CONTROL_MEDIA from the popup
Control(S, A) ==
  \E m \in S, action \in A :
    /\ Event /\ LinkUnchanged
    /\ Commit(ControlMedia(St, m, action), Op("controlMedia", m, action), {}, {})

\* the resume timeout armed by scheduleResumePrevious fires
ResumeTimerFires ==
  \E t \in resumeTimers :
    /\ Internal /\ LinkUnchanged
    /\ Commit(PlayMediaWithFadeIn([St EXCEPT !.resumeTimers = @ \ {t}], t.media),
              Op("playMediaWithFadeIn", t.media.mediaId, ""), {}, {})

\* the fade interval fires; the previous step's delivery has settled
FadeTimerFires ==
  \E f \in fadeTimers :
    /\ \A k \in tasks : k.timer # f.id
    /\ Internal /\ LinkUnchanged
    /\ Commit(FadeStep(St, f), Op("fadeStep", f.mediaId, ""), {}, {})

\* the setInterval of startStaleCheck fires (STALE_CHECK_INTERVAL) while
\* the active browser media has missed its heartbeats; on any other state the
\* callback returns at once
StaleCheckFires ==
  /\ ~IsNull(activeMedia) /\ ~IsDesktopMedia(activeMedia)
  /\ activeMedia.stale
  /\ Internal /\ LinkUnchanged
  /\ Commit(CheckForStaleMedia(St),
            Op("checkForStaleMedia", activeMedia.mediaId, ""), {}, {})

Outcomes == {"delivered", "unreachable", "failed"}

\* the delivery a suspended handler waits for settles
DeliverySettles(O) ==
  \E k \in tasks, outcome \in O :
    /\ Internal /\ LinkUnchanged
    /\ Commit(Settle(St, k, outcome), Op(k.pc, k.mediaId, outcome), {}, {})


\* ------------------------------------------------------------ desktop link
DesktopMedia(mediaId, title, isPlaying, manuallyPaused) ==
  [mediaId |-> mediaId, title |-> title, isPlaying |-> isPlaying,
   manuallyPaused |-> manuallyPaused]

NoDesktopState == [activeMedia |-> Null, pausedList |-> <<>>]

\* the DESKTOP_STATE_UPDATE payloads the peer sends
Snapshots ==
  {[activeMedia |-> DesktopMedia(d, t, p, mp), pausedList |-> <<>>] :
     d \in Desktop, t \in {"t1", "t2"}, p \in BOOLEAN, mp \in BOOLEAN}
  \cup
  {[activeMedia |-> Null, pausedList |-> pl] :
     pl \in {<<>>} \cup {<<[mediaId |-> d, manuallyPaused |-> mp]>> :
                            d \in Desktop, mp \in BOOLEAN}}

\* a mutant of ClearPauseDebounce: the handle is left armed
ClearPauseDebounceKeeps(timer) == timer

\* DesktopConnector.clearPauseDebounce
ClearPauseDebounce(timer) == IF IsNull(timer) THEN timer ELSE Null

\* DesktopConnector.handleStateUpdate; the engine calls it makes are async
\* functions it does not await, so an exception in one does not stop it
StateUpdate ==
  \E state \in Snapshots :
    LET prevActive == desktopState.activeMedia
        newActive == state.activeMedia
        started == ~IsNull(newActive) /\ IsNull(prevActive)
        both == ~IsNull(newActive) /\ ~IsNull(prevActive)
        changed == both /\ (newActive.title # prevActive.title
                            \/ newActive.mediaId # prevActive.mediaId)
        notPlaying == both /\ ~changed /\ ~newActive.isPlaying
        stopped == IsNull(newActive) /\ ~IsNull(prevActive)
        r == IF started \/ changed THEN OnDesktopMediaPlay(St, newActive.mediaId)
             ELSE IF notPlaying
             THEN OnDesktopMediaPause(St, newActive.mediaId, newActive.manuallyPaused)
             ELSE St
    IN /\ connected
       /\ Event
       /\ desktopState' = state
       /\ pauseDebounce' = IF stopped THEN prevActive
                           ELSE IF both \/ started
                           THEN ClearPauseDebounce(pauseDebounce)
                           ELSE pauseDebounce
       /\ UNCHANGED <<settings, connected, link>>
       /\ Commit(BroadcastUpdate(r),
                 Op("handleStateUpdate",
                    IF IsNull(newActive) THEN "null" ELSE newActive.mediaId,
                    IF started \/ changed THEN "play"
                    ELSE IF notPlaying THEN "pause"
                    ELSE IF stopped THEN "debounce" ELSE ""),
                 IF started \/ changed THEN {newActive.mediaId} ELSE {},
                 IF notPlaying THEN {newActive.mediaId} ELSE {})

\* the timeout armed by DesktopConnector.debouncedPause fires
PauseDebounceFires ==
  LET confirmed == IsNull(desktopState.activeMedia)
  IN /\ ~IsNull(pauseDebounce)
     /\ Internal
     /\ pauseDebounce' = Null
     /\ UNCHANGED <<settings, desktopState, connected, link>>
     /\ Commit(IF confirmed
               THEN OnDesktopMediaPause(St, pauseDebounce.mediaId,
                                        pauseDebounce.manuallyPaused)
               ELSE St,
               Op("debouncedPause", pauseDebounce.mediaId, ""),
               {}, IF confirmed THEN {pauseDebounce.mediaId} ELSE {})

\* DESKTOP_CONFIG
MAX_RECONNECT_ATTEMPTS == 10
RECONNECT_DELAY_BASE == 1000
RECONNECT_DELAY_MAX == 30000

\* a delay is held in units of 1/512 ms: the products of 1000 and the powers
\* of 1.5 that the counter can reach are multiples of 2^-9 and exact doubles
DelayUnit == 512

Min(a, b) == IF a < b THEN a ELSE b

\* Math.min(this.reconnectDelay * Math.pow(1.5, n - 1), RECONNECT_DELAY_MAX)
ReconnectDelay(n) ==
  Min(RECONNECT_DELAY_BASE * 3^(n - 1) * (DelayUnit \div 2^(n - 1)),
      RECONNECT_DELAY_MAX * DelayUnit)

\* the connector after `new DesktopConnector()` and init(): connect() has
\* created the first socket.  ws is the readyState of this.ws ("null" when
\* the field is null, "closing" once the peer has started to close);
\* reconnectTimer tells whether the field holds a handle, timers are the
\* armed reconnect timeouts; closing counts the sockets that handleDisconnect
\* closed and whose close event is still to be dispatched; lastDelay is the
\* delay armed by the previous handleDisconnect of the current series.
InitialLink ==
  [ws |-> "connecting", reconnectAttempts |-> 0, reconnectTimer |-> FALSE,
   timers |-> {}, pingInterval |-> FALSE, pingTimeout |-> FALSE,
   closing |-> 0, lastDelay |-> 0]

FreshTimer(l) ==
  CHOOSE i \in 1..(Cardinality(l.timers) + 1) : \A t \in l.timers : t.id # i

\* DesktopConnector.stopPing
StopPing(l) == [l EXCEPT !.pingInterval = FALSE, !.pingTimeout = FALSE]

\* DesktopConnector.startPing
StartPing(l) == [StopPing(l) EXCEPT !.pingInterval = TRUE]

\* DesktopConnector.connect: a second socket is never opened beside one that
\* is connecting or open; a socket the peer is closing is left to dispatch
\* its close event
Connect(l) ==
  IF l.ws \in {"connecting", "open"} THEN l
  ELSE [l EXCEPT !.ws = "connecting",
                 !.closing = IF l.ws = "closing" THEN @ + 1 ELSE @]

\* a mutant of HandleDisconnectLink: past the last attempt the counter is
\* left where it is
HandleDisconnectLinkNoReset(l, own) ==
  LET s == [StopPing(l) EXCEPT !.ws = "null",
                               !.closing = IF l.ws # "null" /\ ~own
                                           THEN @ + 1 ELSE @]
      n == l.reconnectAttempts + 1
  IN IF l.reconnectAttempts < MAX_RECONNECT_ATTEMPTS
     THEN [s EXCEPT !.reconnectAttempts = n,
                    !.reconnectTimer = TRUE,
                    !.timers = @ \cup {[id |-> FreshTimer(l),
                                        delay |-> ReconnectDelay(n)]},
                    !.lastDelay = ReconnectDelay(n)]
     ELSE s

\* the connector's part of DesktopConnector.handleDisconnect; own tells that
\* the close event of this.ws itself is being handled, so that close() on it
\* dispatches nothing more
HandleDisconnectLink(l, own) ==
  LET dropped == l.ws # "null" /\ ~own
      s == [StopPing(l) EXCEPT !.ws = "null",
                               !.closing = IF dropped THEN @ + 1 ELSE @]
      n == l.reconnectAttempts + 1
  IN IF l.reconnectAttempts < MAX_RECONNECT_ATTEMPTS
     THEN [s EXCEPT !.reconnectAttempts = n,
                    !.reconnectTimer = TRUE,
                    !.timers = @ \cup {[id |-> FreshTimer(l),
                                        delay |-> ReconnectDelay(n)]},
                    !.lastDelay = ReconnectDelay(n)]
     ELSE [s EXCEPT !.reconnectAttempts = 0, !.lastDelay = 0]

\* the calls of handleDisconnect stay within the bounds of the run
DisconnectFits(own) ==
  /\ Cardinality(link.timers) < MaxLinkTimers
  /\ own \/ link.ws = "null" \/ link.closing < MaxClosing

\* DesktopConnector.handleDisconnect, called for the reason given
HandleDisconnect(l, own, reason) ==
  /\ connected' = FALSE
  /\ pauseDebounce' = ClearPauseDebounce(pauseDebounce)
  /\ desktopState' = NoDesktopState
  /\ link' = HandleDisconnectLink(l, own)
  /\ UNCHANGED settings
  /\ IF connected
     THEN Commit(OnDesktopDisconnected(St),
                 Op("onDesktopDisconnected", "", reason), {}, Desktop)
     ELSE Commit(St, Op("handleDisconnect", "", reason), {}, {})

\* ws.onopen
DesktopConnects ==
  /\ link.ws = "connecting"
  /\ Event
  /\ connected' = TRUE
  /\ link' = [StartPing(link) EXCEPT !.ws = "open", !.reconnectAttempts = 0,
                                     !.lastDelay = 0]
  /\ UNCHANGED <<settings, desktopState, pauseDebounce>>
  /\ Commit(BroadcastUpdate(St), Op("onDesktopConnected", "", ""), {}, {})

\* ws.onclose of the open socket
DesktopDisconnects ==
  /\ link.ws \in {"open", "closing"}
  /\ DisconnectFits(TRUE)
  /\ Event
  /\ HandleDisconnect(link, TRUE, "")

\* ws.onclose of a socket that never opened
ConnectFails ==
  /\ link.ws = "connecting"
  /\ DisconnectFits(TRUE)
  /\ Internal
  /\ HandleDisconnect(link, TRUE, "refused")

\* the close event of a socket that handleDisconnect or connect left behind
StaleClose ==
  /\ link.closing > 0
  /\ Cardinality(link.timers) < MaxLinkTimers
  /\ Internal
  /\ HandleDisconnect([link EXCEPT !.closing = @ - 1], FALSE, "stale")

\* the peer starts the closing handshake: readyState becomes CLOSING
PeerCloses ==
  /\ link.ws = "open"
  /\ Internal
  /\ link' = [link EXCEPT !.ws = "closing"]
  /\ UNCHANGED <<settings, desktopState, connected, pauseDebounce>>
  /\ Commit(St, Op("closing", "", ""), {}, {})

\* the timeout armed by handleDisconnect fires
ReconnectTimerFires ==
  \E t \in link.timers :
    /\ Internal
    /\ link' = Connect([link EXCEPT !.timers = @ \ {t},
                                    !.reconnectTimer = FALSE])
    /\ UNCHANGED <<settings, desktopState, connected, pauseDebounce>>
    /\ Commit(St, Op("connect", "", "timer"), {}, {})

\* the interval of DesktopConnector.init
ConnectionCheck ==
  LET wsConnected == link.ws = "open"
      mismatch == connected /\ ~wsConnected
      l == IF mismatch THEN HandleDisconnectLink(link, FALSE) ELSE link
      retry == ~wsConnected /\ ~l.reconnectTimer
      l2 == IF retry THEN Connect([l EXCEPT !.reconnectAttempts = 0]) ELSE l
  IN /\ mismatch => DisconnectFits(FALSE)
     /\ Internal
     /\ link' = l2
     /\ connected' = (connected /\ ~mismatch)
     /\ pauseDebounce' = IF mismatch THEN ClearPauseDebounce(pauseDebounce)
                         ELSE pauseDebounce
     /\ desktopState' = IF mismatch THEN NoDesktopState ELSE desktopState
     /\ UNCHANGED settings
     /\ IF mismatch
        THEN Commit(OnDesktopDisconnected(St),
                    Op("onDesktopDisconnected", "", "check"), {}, Desktop)
        ELSE Commit(St, Op("connectionCheck", "", IF retry THEN "connect" ELSE ""),
                    {}, {})

\* the interval of DesktopConnector.startPing: the PING goes out and the
\* PONG timeout is armed, or the socket is gone or refuses the frame.  The
\* interval is three times the timeout, so no timeout is armed at a tick.
PingTick ==
  \E accepted \in BOOLEAN :
    /\ link.pingInterval /\ ~link.pingTimeout
    /\ Internal
    /\ IF link.ws = "open" /\ connected /\ accepted
       THEN /\ link' = [link EXCEPT !.pingTimeout = TRUE]
            /\ UNCHANGED <<settings, desktopState, connected, pauseDebounce>>
            /\ Commit(St, Op("ping", "", "sent"), {}, {})
       ELSE /\ DisconnectFits(FALSE)
            /\ HandleDisconnect(link, FALSE, "sendFailed")

\* the PONG timeout fires
PingTimeoutFires ==
  /\ link.pingTimeout
  /\ DisconnectFits(FALSE)
  /\ Internal
  /\ HandleDisconnect(link, FALSE, "pingTimeout")

\* DesktopConnector.handleMessage for the frames that are not a state update:
\* a PONG, a frame JSON.parse rejects, the frame `null` (it parses, and the
\* destructuring of the result raises inside the same try), and a frame of
\* another type; whatever is raised is caught and logged
Frames == {"PONG", "malformed", "null", "unknown"}

\* a mutant of HandleMessage: a frame that is not a PONG closes the socket
HandleMessageCloses(l, frame) ==
  IF frame = "PONG" THEN [l EXCEPT !.pingTimeout = FALSE]
  ELSE [l EXCEPT !.ws = "closing"]

\* a mutant of HandleMessage: every frame counts as a PONG
HandleMessageAnyFrame(l, frame) == [l EXCEPT !.pingTimeout = FALSE]

HandleMessage(l, frame) ==
  IF frame = "PONG" THEN [l EXCEPT !.pingTimeout = FALSE] ELSE l

MessageArrives ==
  \E frame \in Frames :
    /\ link.ws \in {"open", "closing"}
    /\ Internal
    /\ link' = HandleMessage(link, frame)
    /\ UNCHANGED <<settings, desktopState, connected, pauseDebounce>>
    /\ Commit(St, Op("handleMessage", "", frame), {}, {})

\* ------------------------------------------------------------ time passes
TimeStep(op) ==
  /\ Internal /\ LinkUnchanged
  /\ UNCHANGED <<allMedia, resumeTimers, fadeTimers, tasks, unpaused, volumes>>
  /\ emitted' = <<>> /\ broadcast' = FALSE /\ threw' = FALSE
  /\ lastOp' = Op(op, "", "")

\* RAPID_PLAY_COOLDOWN has passed since the last play event of a media
CooldownElapses ==
  \E m \in Browser :
    /\ recentPlayEvents[m]
    /\ recentPlayEvents' = [recentPlayEvents EXCEPT ![m] = FALSE]
    /\ UNCHANGED <<activeMedia, pausedStack, pendingResume>>
    /\ TimeStep("time")

\* 500 ms have passed since the engine paused an entry
PausedWindowElapses ==
  /\ \/ \E i \in 1..Len(pausedStack) :
          /\ pausedStack[i].pausedRecently
          /\ pausedStack' = [pausedStack EXCEPT ![i].pausedRecently = FALSE]
          /\ UNCHANGED pendingResume
     \/ /\ ~IsNull(pendingResume)
        /\ pendingResume.media.pausedRecently
        /\ pendingResume' = [pendingResume EXCEPT !.media.pausedRecently = FALSE]
        /\ UNCHANGED pausedStack
  /\ UNCHANGED <<activeMedia, recentPlayEvents>>
  /\ TimeStep("time")

\* the active media has played past SCROLL_COOLDOWN, then past the expiry
\* threshold
ActiveAges ==
  /\ ~IsNull(activeMedia)
  /\ \/ activeMedia.age = 0
     \/ activeMedia.age = 1 /\ settings.autoExpireSeconds > 0
  /\ activeMedia' = [activeMedia EXCEPT !.age = @ + 1]
  /\ UNCHANGED <<pausedStack, pendingResume, recentPlayEvents>>
  /\ TimeStep("time")

\* STALE_THRESHOLD has passed since the last heartbeat
HeartbeatMissed ==
  /\ ~IsNull(activeMedia)
  /\ ~activeMedia.stale
  /\ activeMedia' = [activeMedia EXCEPT !.stale = TRUE]
  /\ UNCHANGED <<pausedStack, pendingResume, recentPlayEvents>>
  /\ TimeStep("time")

\* --------------------------------------------------------- specification
\* window.storageManager.get(): the defaults and the values the popup can set
Settings ==
  [autoExpireSeconds : {0, AutoExpireThreshold},
   resumeOnManualPause : BOOLEAN,
   fadeInDuration : {0, 2000},
   fadeInStartVolume : {20}]

DefaultSettings ==
  [autoExpireSeconds |-> 0, resumeOnManualPause |-> TRUE,
   fadeInDuration |-> 2000, fadeInStartVolume |-> 20]

\* the state after `new MediaManager()`; S are the stored settings, n the
\* number of external events of the run
InitWith(n, S) ==
  /\ activeMedia = Null
  /\ pausedStack = <<>>
  /\ allMedia = {}
  /\ pendingResume = Null
  /\ recentPlayEvents = [m \in Browser |-> FALSE]
  /\ resumeTimers = {}
  /\ fadeTimers = {}
  /\ tasks = {}
  /\ settings \in S
  /\ desktopState = NoDesktopState
  /\ connected = FALSE
  /\ pauseDebounce = Null
  /\ link = InitialLink
  /\ emitted = <<>>
  /\ broadcast = FALSE
  /\ threw = FALSE
  /\ lastOp = Op("init", "", "")
  /\ unpaused = {}
  /\ volumes = [m \in Browser |-> One]
  /\ eventsLeft = n

TimePasses ==
  CooldownElapses \/ PausedWindowElapses \/ ActiveAges \/ HeartbeatMissed

Init == InitWith(MaxEvents, Settings)

Next ==
  \/ Register(Browser, Policy) \/ Unregister(Browser) \/ Play(Browser, Policy)
  \/ Pause(Browser, BOOLEAN) \/ Ended(Browser) \/ TabClosed(Tabs)
  \/ Control(MediaIds, {"play", "pause", "skip"})
  \/ ResumeTimerFires \/ FadeTimerFires \/ DeliverySettles(Outcomes)
  \/ StateUpdate \/ PauseDebounceFires \/ DesktopConnects \/ DesktopDisconnects
  \/ ReconnectTimerFires
  \/ StaleCheckFires \/ TimePasses

Spec == Init /\ [][Next]_vars

\* ------------------------------------------- runs with overlapping handlers
\* Two sources in different tabs and the desktop peer, default settings.  A
\* source reports a play only when the rate limit and the 500 ms window of
\* handleMediaPlay let the report through, and every delivery succeeds: what
\* remains is the order in which reports and settled deliveries are processed.
TwoTabs == {"m1", "m3"}

PassesRateLimits(m) ==
  /\ ~recentPlayEvents[m]
  /\ \A i \in 1..Len(pausedStack) :
       pausedStack[i].mediaId = m => ~pausedStack[i].pausedRecently

SpacedPlay(S) == \E m \in S : PassesRateLimits(m) /\ Play({m}, {"ok"})

InitRace == InitWith(MaxRaceEvents, {DefaultSettings})

NextRace ==
  \/ SpacedPlay(TwoTabs) \/ Pause(TwoTabs, BOOLEAN)
  \/ DeliverySettles({"delivered"}) \/ ResumeTimerFires
  \/ StateUpdate \/ PauseDebounceFires \/ DesktopConnects
  \/ CooldownElapses \/ PausedWindowElapses \/ ActiveAges

SpecRace == InitRace /\ [][NextRace]_vars

\* ------------------------------------------------- runs without a desktop
\* Two browser sources in different tabs, no desktop peer, no fade (the
\* resume is a single play intent), every combination of the two resume rules.
BrowserSettings ==
  [autoExpireSeconds : {0, AutoExpireThreshold},
   resumeOnManualPause : BOOLEAN,
   fadeInDuration : {0},
   fadeInStartVolume : {20}]

InitBrowser == InitWith(MaxBrowserEvents, BrowserSettings)

NextBrowser ==
  \/ Register(TwoTabs, Policy) \/ Unregister(TwoTabs)
  \/ Play(TwoTabs, {"ok", "blacklisted"})
  \/ Pause(TwoTabs, BOOLEAN) \/ Ended(TwoTabs) \/ TabClosed({1})
  \/ Control(TwoTabs, {"play", "pause"})
  \/ ResumeTimerFires \/ DeliverySettles(Outcomes)
  \/ TimePasses

SpecBrowser == InitBrowser /\ [][NextBrowser]_vars

\* ------------------------------------------------ runs with expiry enabled
\* Two browser sources in different tabs with autoExpireSeconds set; every
\* delivery succeeds and the resume is a single play intent.
ExpirySettings ==
  [autoExpireSeconds : {AutoExpireThreshold},
   resumeOnManualPause : BOOLEAN,
   fadeInDuration : {0},
   fadeInStartVolume : {20}]

InitExpiry == InitWith(MaxExpiryEvents, ExpirySettings)

NextExpiry ==
  \/ Play(TwoTabs, {"ok"}) \/ Pause(TwoTabs, BOOLEAN) \/ Ended(TwoTabs)
  \/ Unregister(TwoTabs) \/ Control(TwoTabs, {"pause"})
  \/ ResumeTimerFires \/ DeliverySettles({"delivered"})
  \/ CooldownElapses \/ PausedWindowElapses \/ ActiveAges

SpecExpiry == InitExpiry /\ [][NextExpiry]_vars

\* ------------------------------------------- the scheduler on every history
\* The engine some time into a session: three registered browser sources, a
\* Paused History of up to MaxStack of them with every combination of flags,
\* nothing in flight, and either nothing playing or a source without an entry
\* that has played past the scroll cooldown or past the expiry threshold.  The
\* run then takes the events that reach scheduleResumePrevious.
Entries ==
  [mediaId : Browser, manuallyPaused : BOOLEAN, expired : BOOLEAN,
   pausedRecently : {FALSE}]

Stacks ==
  {st \in UNION {[1..n -> Entries] : n \in 0..MaxStack} :
     \A i, j \in 1..Len(st) : st[i].mediaId = st[j].mediaId => i = j}

InitSchedule ==
  /\ pausedStack \in Stacks
  /\ activeMedia \in {Null} \cup
       {[mediaId |-> m, age |-> a, stale |-> FALSE] :
          m \in Browser \ {pausedStack[i].mediaId : i \in 1..Len(pausedStack)},
          a \in {1, 2}}
  /\ allMedia = Browser
  /\ pendingResume = Null
  /\ recentPlayEvents = [m \in Browser |-> FALSE]
  /\ resumeTimers = {}
  /\ fadeTimers = {}
  /\ tasks = {}
  /\ settings \in BrowserSettings
  /\ desktopState = NoDesktopState
  /\ connected = FALSE
  /\ pauseDebounce = Null
  /\ link = InitialLink
  /\ emitted = <<>>
  /\ broadcast = FALSE
  /\ threw = FALSE
  /\ lastOp = Op("init", "", "")
  /\ unpaused = IF IsNull(activeMedia) THEN {} ELSE {activeMedia.mediaId}
  /\ volumes = [m \in Browser |-> One]
  /\ eventsLeft = MaxScheduleEvents

NextSchedule ==
  \/ Pause(Browser, BOOLEAN) \/ Ended(Browser) \/ Unregister(Browser) \/ TabClosed(Tabs)
  \/ Control(Browser, {"pause"}) \/ DeliverySettles({"delivered"})

SpecSchedule == InitSchedule /\ [][NextSchedule]_vars

\* ------------------------------------------------- the resume scenario
\* register X, X plays, another source Y plays and X is paused for it, Y is
\* paused by the extension; from then on only X reports.  Each event of the
\* scenario is processed in the state the scenario gives for it, with the
\* default settings, and every delivery succeeds.
ResumeX == "m1"

RegisterX ==
  eventsLeft = MaxResumeEvents /\ Register({ResumeX}, {"ok"})

PlayX ==
  eventsLeft = MaxResumeEvents - 1 /\ Play({ResumeX}, {"ok"})

PlayY ==
  eventsLeft = MaxResumeEvents - 2 /\ Play(Browser \ {ResumeX}, {"ok"})

\* Y is paused when it is Active and X is the only Paused Entry
PauseY ==
  /\ eventsLeft = MaxResumeEvents - 3
  /\ ~IsNull(activeMedia) /\ activeMedia.mediaId # ResumeX
  /\ Len(pausedStack) = 1 /\ pausedStack[1].mediaId = ResumeX
  /\ tasks = {}
  /\ Pause({activeMedia.mediaId}, {FALSE})

\* the resume timer has fired and the play intent of the resume was sent
ResumePlaySent ==
  /\ eventsLeft <= MaxResumeEvents - 4
  /\ resumeTimers = {}
  /\ \A k \in tasks : k.pc # "fadeSetVolume1"

\* the content script of X reports the play the intent started (the `play`
\* and `volumechange` listeners of the adapter call notifyPlay); resumeDelay
\* is longer than the rate limit of play reports
ResumedSourceReports ==
  ResumePlaySent /\ SpacedPlay({ResumeX})

InitResume == InitWith(MaxResumeEvents, {DefaultSettings})

NextResume ==
  \/ RegisterX \/ PlayX \/ PlayY \/ PauseY \/ ResumedSourceReports
  \/ ResumeTimerFires \/ FadeTimerFires \/ DeliverySettles({"delivered"})
  \/ TimePasses

\* timers fire, deliveries settle, the rate-limit window passes and the
\* resumed source reports its play
SpecResume ==
  /\ InitResume /\ [][NextResume]_vars
  /\ WF_vars(ResumeTimerFires) /\ WF_vars(FadeTimerFires)
  /\ WF_vars(DeliverySettles({"delivered"}))
  /\ WF_vars(CooldownElapses) /\ WF_vars(ResumedSourceReports)

\* ------------------------------------------------------- the fade-in
\* The resume scenario with the fade switched on or off and a start volume
\* of 10 or 20 percent; every delivery succeeds.
FadeSettings ==
  [autoExpireSeconds : {0},
   resumeOnManualPause : {TRUE},
   fadeInDuration : {0, 2000},
   fadeInStartVolume : {10, 20}]

InitFade == InitWith(MaxResumeEvents, FadeSettings)

NextFade ==
  \/ RegisterX \/ PlayX \/ PlayY \/ PauseY \/ ResumedSourceReports
  \/ ResumeTimerFires \/ FadeTimerFires \/ DeliverySettles({"delivered"})
  \/ CooldownElapses \/ PausedWindowElapses \/ ActiveAges \/ HeartbeatMissed

SpecFade == InitFade /\ [][NextFade]_vars

\* ------------------------------------------------------ the health check
\* Two browser sources in different tabs, no fade; after the events of the
\* run the sources are silent.  Time passes, the health check runs
\* periodically and every sendMessage promise settles, delivered or rejected.
StaleSettings ==
  [autoExpireSeconds : {0},
   resumeOnManualPause : {TRUE},
   fadeInDuration : {0},
   fadeInStartVolume : {20}]

InitStale == InitWith(MaxStaleEvents, StaleSettings)

NextStale ==
  \/ Register(TwoTabs, {"ok"}) \/ SpacedPlay(TwoTabs) \/ Pause(TwoTabs, {FALSE})
  \/ StaleCheckFires \/ DeliverySettles(Outcomes) \/ ResumeTimerFires
  \/ CooldownElapses \/ PausedWindowElapses \/ ActiveAges \/ HeartbeatMissed

SpecStale ==
  /\ InitStale /\ [][NextStale]_vars
  /\ WF_vars(HeartbeatMissed) /\ WF_vars(StaleCheckFires)
  /\ WF_vars(DeliverySettles(Outcomes)) /\ WF_vars(ResumeTimerFires)

\* ------------------------------------------------- runs with the desktop
\* One browser source and the desktop peer, no fade, every combination of
\* the two resume rules; every delivery succeeds.
OneTab == {"m1"}

InitDesktop == InitWith(MaxDesktopEvents, BrowserSettings)

NextDesktop ==
  \/ Register(OneTab, {"ok"}) \/ Play(OneTab, {"ok"})
  \/ Pause(OneTab, BOOLEAN) \/ Ended(OneTab)
  \/ Control(OneTab \cup Desktop, {"play", "pause"})
  \/ ResumeTimerFires \/ DeliverySettles({"delivered"})
  \/ StateUpdate \/ PauseDebounceFires \/ DesktopConnects \/ DesktopDisconnects
  \/ ReconnectTimerFires
  \/ CooldownElapses \/ PausedWindowElapses \/ ActiveAges

SpecDesktop == InitDesktop /\ [][NextDesktop]_vars

\* ------------------------------------------------- cancelling a resume
\* Two browser sources with the fade-in switched on: a resume is armed,
\* started and cancelled at every point of its course; every delivery
\* succeeds.
CancelSettings ==
  [autoExpireSeconds : {0},
   resumeOnManualPause : {TRUE},
   fadeInDuration : {2000},
   fadeInStartVolume : {20}]

InitCancel == InitWith(MaxCancelEvents, CancelSettings)

NextCancel ==
  \/ Register(TwoTabs, {"ok"}) \/ Unregister(TwoTabs)
  \/ Play(TwoTabs, {"ok"}) \/ Pause(TwoTabs, {FALSE}) \/ TabClosed({1})
  \/ Control(TwoTabs, {"play"})
  \/ ResumeTimerFires \/ FadeTimerFires \/ DeliverySettles({"delivered"})
  \/ CooldownElapses \/ PausedWindowElapses

SpecCancel == InitCancel /\ [][NextCancel]_vars

\* ------------------------------------------------- a fade that is cut
\* Two registered browser sources with the fade-in switched on: pause
\* reports, play reports of the first source and the popup's pause of the
\* second arrive while resumes are armed, started and cancelled; every
\* delivery succeeds.
InitFadeCut == InitWith(MaxFadeCutEvents, CancelSettings)

\* MEDIA_REGISTERED of a source that is not registered yet
RegisterNext == Register(TwoTabs \ allMedia, {"ok"})

\* the reports and the command arrive once both sources are registered
PlayFirst == allMedia = TwoTabs /\ Play({"m1"}, {"ok"})
PauseEither == allMedia = TwoTabs /\ Pause(TwoTabs, {FALSE})
PopupPausesSecond == allMedia = TwoTabs /\ Control({"m3"}, {"pause"})

NextFadeCut ==
  \/ RegisterNext \/ PlayFirst \/ PauseEither \/ PopupPausesSecond
  \/ ResumeTimerFires \/ FadeTimerFires \/ DeliverySettles({"delivered"})

SpecFadeCut == InitFadeCut /\ [][NextFadeCut]_vars

\* ------------------------------------------------- promotion to Active
\* Two browser sources, one of them registered, and the popup's commands for
\* it and for the desktop source; manual pauses resume, no expiry, no fade,
\* every delivery succeeds.
PromoteSettings ==
  [autoExpireSeconds : {0},
   resumeOnManualPause : {TRUE},
   fadeInDuration : {0},
   fadeInStartVolume : {20}]

InitPromote == InitWith(MaxPromoteEvents, PromoteSettings)

NextPromote ==
  \/ Register({"m1"}, {"ok"})
  \/ Play(TwoTabs, {"ok"})
  \/ Control({"m1"} \cup Desktop, {"play", "pause"})
  \/ ResumeTimerFires \/ DeliverySettles({"delivered"})
  \/ CooldownElapses \/ PausedWindowElapses \/ ActiveAges

SpecPromote == InitPromote /\ [][NextPromote]_vars

\* ------------------------------------------------------- the desktop link
\* The connector alone with the desktop peer: the socket opens, fails and
\* closes, the heartbeat runs, and frames of every kind arrive.
InitLink == InitWith(MaxLinkEvents, {DefaultSettings})

NextLink ==
  \/ DesktopConnects \/ DesktopDisconnects \/ ConnectFails \/ StaleClose
  \/ PeerCloses \/ ReconnectTimerFires \/ ConnectionCheck
  \/ PingTick \/ PingTimeoutFires \/ MessageArrives
  \/ StateUpdate \/ PauseDebounceFires

SpecLink == InitLink /\ [][NextLink]_vars

\* setTimeout and setInterval callbacks run once they are due
SpecRetry ==
  /\ InitLink /\ [][NextLink]_vars
  /\ WF_vars(ReconnectTimerFires)
  /\ WF_vars(ConnectionCheck)

\* ------------------------------------------------------------------ claims
\* the identities in a stack, and those of its entries with a given flag
Ids(stack) == {stack[i].mediaId : i \in 1..Len(stack)}
ManualIds(stack) ==
  {stack[i].mediaId : i \in {j \in 1..Len(stack) : stack[j].manuallyPaused}}
ExpiredIds(stack) ==
  {stack[i].mediaId : i \in {j \in 1..Len(stack) : stack[j].expired}}
UnexpiredIds(stack) ==
  {stack[i].mediaId : i \in {j \in 1..Len(stack) : ~stack[j].expired}}

\* the identity a Pending Resume targets
Target(p) == IF IsNull(p) THEN "none" ELSE p.media.mediaId

\* the step just taken sent m the play intent of an auto-resume
AutoPlayTo(m) ==
  /\ lastOp'.op \in {"playMediaWithFadeIn", "fadeSetVolume1"}
  /\ \E i \in 1..Len(emitted') :
       emitted'[i].action = "play" /\ emitted'[i].mediaId = m

\* the step just taken received a MEDIA_PLAY report (lastOp' names it)
PlayReceived == lastOp'.op = "handleMediaPlay"

\* C1: only one source plays at a time: whenever the engine has finished
\* processing (no handler is suspended), every source whose latest lifecycle
\* report was a play, other than the source in the Active Slot, has been sent
\* a pause intent since that report.
C1_OnlyOnePlays ==
  tasks = {} => \A m \in unpaused : m = activeMedia.mediaId

\* the number of pause intents for x among the intents of a step
PauseIntentsTo(intents, x) ==
  Cardinality({i \in 1..Len(intents) :
                 intents[i].action = "pause" /\ intents[i].mediaId = x})

\* after the step y is Active with a fresh startedAt and x is the head of
\* Paused History with manuallyPaused = false and expired = false
PlayCompleted(x, y) ==
  /\ activeMedia'.mediaId = y
  /\ activeMedia'.age = 0
  /\ pausedStack' # <<>>
  /\ pausedStack'[1].mediaId = x
  /\ ~pausedStack'[1].manuallyPaused
  /\ ~pausedStack'[1].expired

\* C2: a play report of Y received while a different source X is Active
\* emits exactly one pause intent to X, and when the operation completes (in
\* the same step, or in the step that continues it after the delivery of the
\* pause) Y is the Active Slot with a fresh startedAt and X is the head entry
\* of Paused History with manuallyPaused = false and expired = false.
C2_PlayPausesActive ==
  [][/\ (PlayReceived /\ ~IsNull(activeMedia)
           /\ lastOp'.mediaId # activeMedia.mediaId)
          => /\ PauseIntentsTo(emitted', activeMedia.mediaId) = 1
             /\ (tasks' = tasks
                   => PlayCompleted(activeMedia.mediaId, lastOp'.mediaId))
     /\ \A k \in tasks :
          (lastOp'.op = "handleMediaPlay.resumed" /\ k.pc = lastOp'.op
             /\ k \notin tasks')
          => PlayCompleted(k.prev.mediaId, k.mediaId)]_vars

\* C3: Paused History holds at most one entry per source identity.
C3_NoDuplicateEntries ==
  \A i, j \in 1..Len(pausedStack) :
    pausedStack[i].mediaId = pausedStack[j].mediaId => i = j

\* C4: while Paused History holds an entry of a source with manuallyPaused =
\* true, no step arms a Pending Resume for that source and no step sends it
\* the play intent of an auto-resume.
C4_ManualPauseSticky ==
  [][\A m \in ManualIds(pausedStack) :
       /\ Target(pendingResume') = m => Target(pendingResume) = m
       /\ ~AutoPlayTo(m)]_vars

\* the step just taken stopped the Active source: its pause, ended or
\* unregister report, or the close of its tab
ActiveStopped ==
  /\ ~IsNull(activeMedia)
  /\ \/ /\ lastOp'.mediaId = activeMedia.mediaId
        /\ lastOp'.op \in {"handleMediaPause", "handleMediaEnded",
                           "handleMediaUnregistered"}
     \/ /\ lastOp'.op = "handleTabClosed"
        /\ lastOp'.arg = (IF TabOf(activeMedia.mediaId) = 1 THEN "tab1" ELSE "tab2")

\* the stoppedMedia the step just taken passed to scheduleResumePrevious
JustStopped ==
  IF ActiveStopped THEN activeMedia
  ELSE IF lastOp'.op = "controlMedia.resumed"
  THEN (CHOOSE k \in tasks : k \notin tasks').prev
  ELSE Null

\* the step just taken ran scheduleResumePrevious as far as its selection:
\* it did not stop at the expiry check or at the manual-pause policy check
ReachesSelection ==
  /\ \/ ActiveStopped
     \/ lastOp'.op = "controlMedia.resumed" /\ lastOp'.arg = "delivered"
  /\ ~threw'
  /\ ~AutoExpired(JustStopped)
  /\ \/ settings.resumeOnManualPause
     \/ /\ lastOp'.op # "controlMedia.resumed"
        /\ ~(lastOp'.op = "handleMediaPause" /\ lastOp'.arg = "manual")

\* t stood before e in the stack the selection ran on: a re-queued target is
\* its head, the other entries keep the order they had
Precedes(t, e) ==
  \/ Target(pendingResume) = t /\ t \notin Ids(pausedStack)
  \/ /\ IndexOf(pausedStack, t) # 0
     /\ IndexOf(pausedStack, e) # 0
     /\ IndexOf(pausedStack, t) < IndexOf(pausedStack, e)

\* C5: whenever scheduleResumePrevious reaches selection, the target it arms
\* is not manually paused, not expired and not the just-stopped source, it
\* was taken out of Paused History, and every entry left there that is
\* eligible too stood behind it; when it arms nothing, no entry is eligible.
C5_ResumeOrdering ==
  [][ReachesSelection =>
       LET t == Target(pendingResume')
           eligible(e) == /\ ~e.manuallyPaused /\ ~e.expired
                          /\ e.mediaId # JustStopped.mediaId
       IN IF t = "none"
          THEN \A i \in 1..Len(pausedStack') : ~eligible(pausedStack'[i])
          ELSE /\ eligible(pendingResume'.media)
               /\ t \in Ids(pausedStack) \/ t = Target(pendingResume)
               /\ t \notin Ids(pausedStack')
               /\ \E r \in resumeTimers' :
                    r.id = pendingResume'.timeoutId /\ r.media.mediaId = t
               /\ \A i \in 1..Len(pausedStack') :
                    eligible(pausedStack'[i])
                      => Precedes(t, pausedStack'[i].mediaId)]_vars

\* the Active source ended with Paused History [A, B(manual), C] (or with B
\* above A): A is the target of the Pending Resume, B and C are left
C5_Witness ==
  /\ lastOp.op = "handleMediaEnded"
  /\ ~IsNull(pendingResume)
  /\ Len(pausedStack) = 2
  /\ pausedStack[1].manuallyPaused
  /\ ~pausedStack[2].manuallyPaused /\ ~pausedStack[2].expired

\* Y was paused and the Pending Resume is waiting for resumeDelay to elapse
ResumeArmed ==
  eventsLeft = MaxResumeEvents - 4 /\ resumeTimers # {}

\* the step just taken sent a play intent to X
PlaySentToX ==
  \E i \in 1..Len(emitted) :
    emitted[i].action = "play" /\ emitted[i].mediaId = ResumeX

\* X is Active, nothing of the resume is left and the last volume sent to X
\* is 1.0
ResumedAtFullVolume ==
  /\ activeMedia.mediaId = ResumeX
  /\ IsNull(pendingResume) /\ resumeTimers = {} /\ fadeTimers = {}
  /\ tasks = {}
  /\ volumes[ResumeX] = One

PlayedOrRemoved(m) ==
  \/ /\ lastOp'.mediaId = m
     /\ \/ lastOp'.op \in {"handleMediaPlay", "handleMediaPlay.resumed",
                          "handleMediaUnregistered"}
        \/ lastOp'.op = "controlMedia" /\ lastOp'.arg = "play"
        \/ /\ lastOp'.op \in {"fadeSetVolume1", "fadeSetVolume2", "fadeStep"}
           /\ lastOp'.arg = "unreachable"
  \/ lastOp'.op = "handleTabClosed" /\ lastOp'.arg = "tab1" /\ TabOf(m) = 1
  \/ lastOp'.op = "handleTabClosed" /\ lastOp'.arg = "tab2" /\ TabOf(m) = 2

StopsExpired ==
  /\ settings.autoExpireSeconds > 0
  /\ ~IsNull(activeMedia) /\ activeMedia.age = 2
  /\ lastOp'.mediaId = activeMedia.mediaId
  /\ lastOp'.op \in {"handleMediaPause", "handleMediaEnded",
                     "handleMediaUnregistered"}

\* C8: when the stopped source has played for at least autoExpireSeconds > 0,
\* the scheduler marks every Paused Entry expired and arms no Pending Resume,
\* whether or not the pause was manual and whatever resumeOnManualPause is.
C8_ExpiryBeforePolicy ==
  [][StopsExpired
       => /\ \A i \in 1..Len(pausedStack') : pausedStack'[i].expired
          /\ IsNull(pendingResume') /\ resumeTimers' = {}]_vars

\* C9: a play report for the identity that is already Active is a pure
\* heartbeat: the Active identity and its startedAt, Paused History, Pending
\* Resume and its timers are unchanged, no intent is emitted (so no pause
\* intent) and no state-changed notification is broadcast; only the liveness
\* stamp of the Active record may change.
C9_HeartbeatOnly ==
  [][(PlayReceived /\ lastOp'.mediaId = activeMedia.mediaId)
       => /\ activeMedia'.mediaId = activeMedia.mediaId
          /\ activeMedia'.age = activeMedia.age
          /\ pausedStack' = pausedStack
          /\ pendingResume' = pendingResume
          /\ resumeTimers' = resumeTimers
          /\ fadeTimers' = fadeTimers
          /\ tasks' = tasks
          /\ allMedia' = allMedia
          /\ emitted' = <<>>
          /\ ~broadcast']_vars

\* a play report of the Active source was processed after it had played past
\* the scroll cooldown, with an entry in Paused History: the record is not
\* stale, its age is unchanged and nothing was broadcast
C9_Witness ==
  /\ lastOp.op = "handleMediaPlay" /\ lastOp.arg = "ok"
  /\ activeMedia.mediaId = lastOp.mediaId
  /\ activeMedia.age = 1 /\ ~activeMedia.stale
  /\ ~broadcast
  /\ pausedStack # <<>>

\* the step just taken received a play report that cancelled a live Pending
\* Resume
Cancelled == PlayReceived /\ ~IsNull(pendingResume) /\ IsNull(pendingResume')

\* C10, as stated: a play report that cancels a live Pending Resume does not
\* re-insert the cancelled target into Paused History.
C10_CancelDropsTarget ==
  [][Cancelled => (Target(pendingResume) \notin Ids(pausedStack)
                     => Target(pendingResume) \notin Ids(pausedStack'))]_vars

\* the cancelled target t is back in Paused History as the entry the Pending
\* Resume held, with nothing above it but the source that was Active
InsertedAtHead(t) ==
  LET i == IndexOf(pausedStack', t)
  IN /\ i # 0
     /\ pausedStack'[i] = pendingResume.media
     /\ \A j \in 1..(i - 1) : pausedStack'[j].mediaId = activeMedia.mediaId

\* C10, amended: a play report (handleMediaPlay) that cancels a live Pending
\* Resume re-inserts the cancelled target at the head of Paused History
\* (cancelPendingResume runs with putBackInStack = true), unless an entry of
\* that identity is already there; when the target is the reporting source
\* and is promoted in the same step, the promotion removes it again; when the
\* target is a browser source that is no longer registered, the cancellation
\* raises and nothing is re-inserted.
C10_CancelRequeuesTarget ==
  [][Cancelled =>
       LET t == Target(pendingResume)
           y == lastOp'.mediaId
       IN IF t \in Ids(pausedStack) THEN Len(pausedStack') <= Len(pausedStack)
          ELSE IF t \in Desktop \/ t \in allMedia
          THEN \/ t = y /\ activeMedia'.mediaId = y /\ t \notin Ids(pausedStack')
               \/ InsertedAtHead(t)
          ELSE t \notin Ids(pausedStack') /\ threw']_vars

\* a play report of another source has cancelled a Pending Resume: the
\* volume of the target was reset and the target is in Paused History
C10_Witness ==
  /\ lastOp.op = "handleMediaPlay"
  /\ IsNull(pendingResume)
  /\ \E i \in 1..Len(emitted) :
       /\ emitted[i].action = "setVolume"
       /\ emitted[i].mediaId # lastOp.mediaId
       /\ emitted[i].mediaId \in Ids(pausedStack)

\* the step just taken processed a MEDIA_UNREGISTERED report
UnregisterReceived == lastOp'.op = "handleMediaUnregistered"

\* e is an entry auto-resume may select when x has just stopped
Eligible(e, x) == ~e.manuallyPaused /\ ~e.expired /\ e.mediaId # x

\* the step just taken ran the Resume Scheduler with the Active source as
\* just-stopped and wasManualPause = false: it raised while cancelling, or it
\* expired every entry and armed nothing, or it armed the timer of an
\* eligible entry, or no entry was eligible
ScheduledAfterActive ==
  LET x == activeMedia.mediaId
      t == Target(pendingResume')
  IN \/ threw'
     \/ /\ AutoExpired(activeMedia)
        /\ t = "none"
        /\ \A i \in 1..Len(pausedStack') : pausedStack'[i].expired
     \/ /\ ~AutoExpired(activeMedia)
        /\ broadcast'
        /\ IF t = "none"
           THEN \A i \in 1..Len(pausedStack') : ~Eligible(pausedStack'[i], x)
           ELSE /\ Eligible(pendingResume'.media, x)
                /\ \E r \in resumeTimers' : r.id = pendingResume'.timeoutId

\* C11: after unregister(X), X is in none of Source Registry, Paused History,
\* Pending Resume and Active Slot; a Pending Resume that targeted X is dropped
\* with its timers and X is not re-queued; and if X was the Active Slot, the
\* slot is cleared and the Resume Scheduler has run with X as just-stopped.
C11_UnregisterPurges ==
  [][UnregisterReceived =>
       LET x == lastOp'.mediaId
       IN /\ x \notin allMedia'
          /\ x \notin Ids(pausedStack')
          /\ Target(pendingResume') # x
          /\ activeMedia'.mediaId # x
          /\ Target(pendingResume) = x
               => /\ \A t \in resumeTimers' :
                       t.id = pendingResume.timeoutId => t.media.mediaId # x
                  /\ \A f \in fadeTimers' :
                       f.id = pendingResume.fadeInterval => f.mediaId # x
                  /\ activeMedia.mediaId # x => IsNull(pendingResume')
          /\ activeMedia.mediaId = x
               => IsNull(activeMedia') /\ ScheduledAfterActive]_vars

\* the Active source was unregistered while another source had an entry:
\* the slot is empty and a Pending Resume is armed for that other source
C11_Witness ==
  /\ lastOp.op = "handleMediaUnregistered"
  /\ lastOp.mediaId \notin allMedia
  /\ IsNull(activeMedia) /\ ~threw
  /\ ~IsNull(pendingResume) /\ resumeTimers # {}

\* the step just taken processed the MEDIA_ENDED report of the Active source
ActiveEnded ==
  lastOp'.op = "handleMediaEnded" /\ lastOp'.mediaId = activeMedia.mediaId

\* what reportPause(X, manual = false) makes of the state the step started in
AsPaused == HandleMediaPause(St, lastOp'.mediaId, FALSE)

\* C12, as stated: reportEnded(X) for the Active source X yields the Active
\* Slot, Paused History and Pending Resume that reportPause(X, manual=false)
\* yields from the same state: X is the head of Paused History with
\* manuallyPaused = false and the Resume Scheduler ran with X as just-stopped.
C12_EndedAsPause ==
  [][ActiveEnded =>
       /\ activeMedia' = AsPaused.activeMedia
       /\ pendingResume' = AsPaused.pendingResume
       /\ pausedStack' = AsPaused.pausedStack
       /\ lastOp'.mediaId \in Ids(pausedStack')]_vars

\* C12, amended: reportEnded(X) for the Active source X clears the Active
\* Slot and runs the Resume Scheduler with X as just-stopped and wasManual =
\* false, so the Active Slot, the Pending Resume and every Paused Entry of the
\* other sources are those reportPause(X, manual=false) yields from the same
\* state; but X is not moved into Paused History: it has an entry afterwards
\* only if it had one before or was the target of the cancelled Pending
\* Resume.
C12_EndedSchedulesOnly ==
  [][ActiveEnded =>
       LET x == lastOp'.mediaId
       IN /\ activeMedia' = AsPaused.activeMedia
          /\ IsNull(activeMedia')
          /\ pendingResume' = AsPaused.pendingResume
          /\ resumeTimers' = AsPaused.resumeTimers
          /\ threw' = AsPaused.threw
          /\ FilterOut(pausedStack', x) = FilterOut(AsPaused.pausedStack, x)
          /\ x \in Ids(pausedStack')
               => x \in Ids(pausedStack) \/ Target(pendingResume) = x]_vars

\* the Active source ended while another source had an eligible entry: a
\* Pending Resume is armed for that source and the ended source has no entry
C12_Witness ==
  /\ lastOp.op = "handleMediaEnded" /\ lastOp.arg = "active"
  /\ IsNull(activeMedia) /\ ~threw
  /\ ~IsNull(pendingResume) /\ resumeTimers # {}
  /\ lastOp.mediaId \notin Ids(pausedStack)

\* the step just taken processed a popup play command
PopupPlay == lastOp'.op = "controlMedia" /\ lastOp'.arg = "play"

\* the play intent is the last intent of the step: what the cancellation
\* sends (the volume reset of the target) precedes it
PlayIntentLast(intents, x) ==
  \A i \in 1..Len(intents) :
    (intents[i].action = "play" /\ intents[i].mediaId = x) => i = Len(intents)

\* C13: a popup play command for a browser or a desktop source cancels any
\* live Pending Resume, whatever its target: afterwards there is no Pending
\* Resume, no resume timer is waiting to fire, the fade interval of the
\* cancelled resume is stopped, and the play intent for X, when one is sent,
\* follows what the cancellation sent.
C13_PopupPlayCancels ==
  [][PopupPlay =>
       /\ IsNull(pendingResume')
       /\ resumeTimers' = {}
       /\ ~IsNull(pendingResume)
            => \A f \in fadeTimers' : f.id # pendingResume.fadeInterval
       /\ PlayIntentLast(emitted', lastOp'.mediaId)]_vars

\* the step just taken ran scheduleResumePrevious with wasManualPause = true:
\* the manual pause report of the Active source, a popup pause of a browser
\* source after its delivery, a popup pause of a desktop source, or the
\* pause of the Active desktop source that the peer reports as manual (in a
\* snapshot, or confirmed by the debounce timer)
ManualSchedule ==
  \/ /\ lastOp'.op = "handleMediaPause" /\ lastOp'.arg = "manual"
     /\ lastOp'.mediaId = activeMedia.mediaId
  \/ lastOp'.op = "controlMedia.resumed" /\ lastOp'.arg = "delivered"
  \/ /\ lastOp'.op = "controlMedia" /\ lastOp'.arg = "pause"
     /\ lastOp'.mediaId \in Desktop
  \/ /\ lastOp'.op = "handleStateUpdate" /\ lastOp'.arg = "pause"
     /\ lastOp'.mediaId = activeMedia.mediaId
     /\ desktopState'.activeMedia.manuallyPaused
  \/ /\ lastOp'.op = "debouncedPause"
     /\ lastOp'.mediaId = activeMedia.mediaId
     /\ IsNull(desktopState.activeMedia)
     /\ pauseDebounce.manuallyPaused

\* the stoppedMedia of that call
ManualStopped ==
  IF lastOp'.op = "controlMedia.resumed"
  THEN (CHOOSE k \in tasks : k \notin tasks').prev
  ELSE IF lastOp'.mediaId = activeMedia.mediaId THEN activeMedia ELSE Null

\* the cancellation scheduleResumePrevious starts with raises: the target of
\* the Pending Resume is a browser source that is not registered
CancelRaises ==
  /\ ~IsNull(pendingResume)
  /\ ~IsDesktopMedia(pendingResume.media)
  /\ pendingResume.media.mediaId \notin allMedia

PlayIntents(intents) ==
  {i \in 1..Len(intents) : intents[i].action = "play"}

\* C14: when scheduleResumePrevious runs with wasManualPause = true and
\* resumeOnManualPause = false, it arms no Pending Resume and no timer and
\* sends no play intent, whatever Paused History holds; with
\* resumeOnManualPause = true the policy check lets the call through to
\* selection (when the call reaches that check: its cancellation did not
\* raise and the expiry rule did not end it): it arms the timer of an
\* eligible entry, or no entry is eligible.
C14_ManualPausePolicy ==
  [][ManualSchedule =>
       IF ~settings.resumeOnManualPause
       THEN /\ IsNull(pendingResume')
            /\ resumeTimers' \subseteq resumeTimers
            /\ PlayIntents(emitted') = {}
       ELSE (~CancelRaises /\ ~AutoExpired(ManualStopped)) =>
              LET x == IF IsNull(ManualStopped) THEN Undefined
                       ELSE ManualStopped.mediaId
                  t == Target(pendingResume')
              IN IF t = "none"
                 THEN \A i \in 1..Len(pausedStack') :
                        ~Eligible(pausedStack'[i], x)
                 ELSE /\ Eligible(pendingResume'.media, x)
                      /\ \E r \in resumeTimers' :
                           r.id = pendingResume'.timeoutId]_vars

\* the Active source was paused manually with resumeOnManualPause = false
\* while an eligible entry of another source was waiting: nothing is armed
C14_Witness ==
  /\ lastOp.op = "handleMediaPause" /\ lastOp.arg = "manual"
  /\ ~settings.resumeOnManualPause
  /\ IsNull(activeMedia) /\ IsNull(pendingResume) /\ resumeTimers = {}
  /\ Len(pausedStack) >= 2
  /\ pausedStack[1].mediaId = lastOp.mediaId /\ pausedStack[1].manuallyPaused
  /\ ~pausedStack[2].manuallyPaused /\ ~pausedStack[2].expired

\* the step just taken armed the timer of a Pending Resume
Arms ==
  /\ ~IsNull(pendingResume')
  /\ \E r \in resumeTimers' \ resumeTimers : r.id = pendingResume'.timeoutId

\* C15: desktop precedence: scheduleResumePrevious arms no Pending Resume
\* while a desktop source is Active or a desktop entry sits in the Paused
\* History it selects from (the entry it takes out included).
C15_DesktopPrecedence ==
  [][Arms => /\ ~IsDesktopMedia(activeMedia')
             /\ ~IsDesktopMedia(pendingResume'.media)
             /\ \A i \in 1..Len(pausedStack') :
                  ~IsDesktopMedia(pausedStack'[i])]_vars

\* the step just taken started playMediaWithFadeIn for a registered browser
\* source
FadeInStarted ==
  /\ lastOp'.op = "playMediaWithFadeIn"
  /\ lastOp'.mediaId \in allMedia

\* the continuation pc of the fade-in of a registered source ran after its
\* delivery succeeded
FadeInContinued(pc) ==
  /\ lastOp'.op = pc /\ lastOp'.arg = "delivered"
  /\ lastOp'.mediaId \in allMedia

\* the step just taken sent exactly the intent action to the source of the
\* step, with this volume
SentOnly(action, volume) ==
  emitted' = <<Intent(action, lastOp'.mediaId, volume)>>

\* the fade interval f ran: one setVolume, not below the volume of the step
\* before, not above 1.0, at most FadeSteps of them and the last one 1.0
FadeStepSent(f) ==
  LET v == emitted'[1].volume
  IN /\ f.step < FadeSteps
     /\ Len(emitted') = 1
     /\ emitted'[1].action = "setVolume" /\ emitted'[1].mediaId = f.mediaId
     /\ ~Less(v, FadeVolume(settings.fadeInStartVolume, f.step))
     /\ ~Less(One, v)
     /\ f.step + 1 = FadeSteps => v = One

\* C16: playMediaWithFadeIn for a registered browser source with
\* fadeInDuration > 0 sends setVolume(startVolume), then play, then
\* setVolume(startVolume) again, then exactly FadeSteps setVolume intents
\* whose volumes never decrease, stay within [0, 1] and end at 1.0, and after
\* the last one the fade interval is gone and the Pending Resume is cleared;
\* with fadeInDuration <= 0 it sends one play intent and no setVolume.
C16_FadeSequence ==
  [][/\ FadeInStarted /\ settings.fadeInDuration > 0 =>
          SentOnly("setVolume", StartVolume(settings.fadeInStartVolume))
     /\ FadeInContinued("fadeSetVolume1") => SentOnly("play", 0)
     /\ FadeInContinued("fadePlay") =>
          SentOnly("setVolume", StartVolume(settings.fadeInStartVolume))
     /\ FadeInContinued("fadeSetVolume2") =>
          /\ emitted' = <<>>
          /\ \E f \in fadeTimers' \ fadeTimers :
               f.mediaId = lastOp'.mediaId /\ f.step = 0
     /\ lastOp'.op = "fadeStep" /\ lastOp'.arg = "" =>
          \E f \in fadeTimers :
            /\ f.mediaId \in allMedia
            /\ [f EXCEPT !.step = f.step + 1] \in fadeTimers'
            /\ FadeStepSent(f)
     /\ FadeInContinued("fadeStep") /\ (\E k \in tasks : k.step = FadeSteps) =>
          /\ emitted' = <<>>
          /\ IsNull(pendingResume')
          /\ \A f \in fadeTimers' : f.mediaId # lastOp'.mediaId
     /\ FadeInStarted /\ settings.fadeInDuration <= 0 =>
          /\ SentOnly("play", 0)
          /\ fadeTimers' = {}
     /\ FadeInContinued("playNoFade") =>
          emitted' = <<>> /\ fadeTimers' = {}
    ]_vars

\* the handlers waiting for a delivery part-way through a play report, a
\* popup command or a resume
InProgress ==
  {k \in tasks : k.pc \in {"handleMediaPlay.resumed", "controlMedia.resumed",
                           "playNoFade", "fadeSetVolume1", "fadePlay",
                           "fadeSetVolume2"}}

\* the step just taken was the handler of a new event
EventHandled ==
  lastOp'.op \in {"handleMediaRegistered", "handleMediaUnregistered",
                  "handleMediaPlay", "handleMediaPause", "handleMediaEnded",
                  "handleTabClosed", "controlMedia"}

\* C17: while a play report, a popup command or a resume is in progress
\* (waiting for the delivery of an intent), the handler of another event
\* does not change Active Slot, Paused History or Pending Resume.
C17_RunToCompletion ==
  [][InProgress # {} /\ EventHandled =>
       UNCHANGED <<activeMedia, pausedStack, pendingResume>>]_vars

\* the sources have gone silent while a browser source is Active: no report
\* of any kind will arrive any more
SilentActive ==
  /\ eventsLeft = 0
  /\ ~IsNull(activeMedia) /\ ~IsDesktopMedia(activeMedia)

\* C18: when the Active browser source sends no more heartbeats and nothing
\* confirms that it is still playing, the health check probes it and the
\* Active Slot is eventually cleared.
C18_StaleActiveCleared ==
  SilentActive ~> IsNull(activeMedia)

\* the source the intent of the suspended handler k was sent to
IntentTarget(k) ==
  IF k.pc \in {"handleMediaPlay.resumed", "onDesktopMediaPlay.resumed"}
  THEN k.prev.mediaId ELSE k.mediaId

\* the step just taken continued k after its control intent could not be
\* delivered because the tab of the target is gone
Undelivered(k) ==
  /\ k.pc # "pingActiveMedia"
  /\ lastOp'.op = k.pc /\ lastOp'.mediaId = k.mediaId
  /\ lastOp'.arg = "unreachable"
  /\ k \notin tasks'

\* C19: when a pause, play or setVolume intent cannot be delivered because
\* its target is gone, the target is unregistered: afterwards it is not in
\* the Source Registry, not in Paused History, not the target of the Pending
\* Resume and not Active, and no error is raised.
C19_UndeliveredUnregisters ==
  [][\A k \in tasks :
       Undelivered(k) =>
         /\ IntentTarget(k) \notin allMedia'
         /\ IntentTarget(k) \notin Ids(pausedStack')
         /\ Target(pendingResume') # IntentTarget(k)
         /\ activeMedia'.mediaId # IntentTarget(k)
         /\ ~threw'
    ]_vars

\* the step just taken processed a pause or ended report of a source that is
\* neither Active nor in the Source Registry
UnknownStopped ==
  /\ lastOp'.op \in {"handleMediaPause", "handleMediaEnded"}
  /\ lastOp'.mediaId \notin allMedia
  /\ activeMedia.mediaId # lastOp'.mediaId

\* C20: a pause or ended report of a source that is neither Active nor in the
\* Source Registry changes nothing: Active Slot, Paused History, Pending
\* Resume and Source Registry stay as they are, no timer is armed, no intent
\* is sent and no error is raised.
C20_UnknownStopIsNoOp ==
  [][UnknownStopped =>
       /\ UNCHANGED <<activeMedia, pausedStack, pendingResume, allMedia>>
       /\ UNCHANGED <<resumeTimers, fadeTimers, tasks>>
       /\ emitted' = <<>>
       /\ ~threw'
    ]_vars

\* the late manual pause report of an unregistered source that the engine
\* paused before, while another source is Active
C20_Witness ==
  /\ lastOp.op = "handleMediaPause" /\ lastOp.arg = "manual"
  /\ lastOp.mediaId \notin allMedia
  /\ ~IsNull(activeMedia) /\ activeMedia.mediaId # lastOp.mediaId
  /\ lastOp.mediaId \in Ids(pausedStack)
  /\ lastOp.mediaId \notin ManualIds(pausedStack)

\* the engine state after the event just processed is processed once more,
\* at once and with the same arguments
Repeated ==
  LET m == lastOp.mediaId
      a == lastOp.arg
  IN CASE lastOp.op = "handleMediaRegistered" ->
            HandleMediaRegistered(St, m, a = "unknown", a = "blacklisted")
       [] lastOp.op = "handleMediaUnregistered" -> HandleMediaUnregistered(St, m)
       [] lastOp.op = "handleMediaPlay" ->
            HandleMediaPlay(St, m, a = "unknown", a = "blacklisted")
       [] lastOp.op = "handleMediaPause" -> HandleMediaPause(St, m, a = "manual")
       [] lastOp.op = "handleMediaEnded" -> HandleMediaEnded(St, m)
       [] OTHER -> St

\* C21: processing a register, unregister, play, pause or ended report a
\* second time, immediately and with the same arguments, leaves Active Slot,
\* Paused History (entries, flags and order) and the target of the Pending
\* Resume as the first processing left them.
C21_RepeatedEventIdempotent ==
  lastOp.op \in {"handleMediaRegistered", "handleMediaUnregistered",
                 "handleMediaPlay", "handleMediaPause", "handleMediaEnded"}
    => /\ Repeated.activeMedia = activeMedia
       /\ Repeated.pausedStack = pausedStack
       /\ Target(Repeated.pendingResume) = Target(pendingResume)

\* the pause report of the Active source was processed: the source heads
\* Paused History and a Pending Resume is armed for another source
C21_Witness ==
  /\ lastOp.op = "handleMediaPause"
  /\ IsNull(activeMedia)
  /\ pausedStack # <<>> /\ pausedStack[1].mediaId = lastOp.mediaId
  /\ lastOp.mediaId \in allMedia
  /\ ~IsNull(pendingResume)

\* what the popup shows of a Paused Entry
Shown(stack) ==
  [i \in 1..Len(stack) |->
     <<stack[i].mediaId, stack[i].manuallyPaused, stack[i].expired>>]

\* the step just taken changed Active Slot, Paused History, Source Registry
\* or Pending Resume
ObservableChange ==
  \/ activeMedia'.mediaId # activeMedia.mediaId
  \/ Shown(pausedStack') # Shown(pausedStack)
  \/ allMedia' # allMedia
  \/ Target(pendingResume') # Target(pendingResume)

\* the handler of the step just taken has returned: it left no new
\* continuation waiting for a delivery
HandlerReturned == tasks' \subseteq tasks

\* C22: a step of the engine that changes Active Slot, Paused History, Source
\* Registry or Pending Resume has called broadcastUpdate by the time its
\* handler returns; a heartbeat of the Active source calls none.
C22_ChangeIsBroadcast ==
  [][/\ lastOp'.op # "time" /\ ObservableChange /\ HandlerReturned
          => broadcast'
     /\ PlayReceived /\ lastOp'.mediaId = activeMedia.mediaId
          => ~broadcast'
    ]_vars

\* C23: cancelling when no Pending Resume is live changes nothing and raises
\* nothing.  From every reachable state, cancelPendingResume with either
\* flag followed by cancelPendingResume with either flag leaves what the
\* first call left (Active Slot, Paused History, timers, everything) and the
\* second call raises no error and sends nothing; clearing the debounce timer
\* twice, and stopping the heartbeat timers twice, equals doing it once.
C23_CancelIdempotent ==
  /\ \A first, again \in BOOLEAN :
       LET once == [CancelPendingResume(St, first)
                      EXCEPT !.threw = FALSE, !.emitted = <<>>]
       IN /\ IsNull(once.pendingResume)
          /\ CancelPendingResume(once, again) = once
  /\ IsNull(pendingResume) =>
       \A requeue \in BOOLEAN : CancelPendingResume(St, requeue) = St
  /\ ClearPauseDebounce(ClearPauseDebounce(pauseDebounce))
       = ClearPauseDebounce(pauseDebounce)
  /\ StopPing(StopPing(link)) = StopPing(link)

\* a Pending Resume is live while the link is open with its heartbeat
\* running and the debounce timer is armed: each of the three has something
\* to cancel
C23_Witness ==
  /\ ~IsNull(pendingResume)
  /\ ~IsNull(pauseDebounce)
  /\ link.pingInterval

\* the step just taken handled a DESKTOP_STATE_UPDATE
SnapshotReceived == lastOp'.op = "handleStateUpdate"

\* C24: when the peer reports activeMedia = null for the Active desktop
\* source D, the engine is told nothing: D stays the Active Slot, Paused
\* History is untouched and the debounce timer is armed for D; and when the
\* peer reports D again while that timer is armed, the timer is cleared (it
\* can no longer fire), no onDesktopMediaPause is issued, and D is the Active
\* Slot with no entry in Paused History.
C24_DebounceAbsorbsGap ==
  [][/\ /\ SnapshotReceived /\ lastOp'.arg = "debounce"
        /\ activeMedia.mediaId = desktopState.activeMedia.mediaId
        => /\ activeMedia' = activeMedia
           /\ pausedStack' = pausedStack
           /\ pauseDebounce'.mediaId = activeMedia.mediaId
     /\ /\ SnapshotReceived /\ ~IsNull(pauseDebounce)
        /\ lastOp'.mediaId = pauseDebounce.mediaId
        /\ activeMedia.mediaId = pauseDebounce.mediaId
        => /\ IsNull(pauseDebounce')
           /\ lastOp'.arg = "play"
           /\ activeMedia'.mediaId = pauseDebounce.mediaId
           /\ pauseDebounce.mediaId \notin Ids(pausedStack')
           /\ pauseDebounce.mediaId \in unpaused']_vars

\* the gap: the peer has reported null for the Active desktop source, the
\* debounce timer is armed for it, and a further report can still arrive
C24_Witness ==
  /\ lastOp.op = "handleStateUpdate" /\ lastOp.arg = "debounce"
  /\ ~IsNull(pauseDebounce)
  /\ activeMedia.mediaId = pauseDebounce.mediaId
  /\ eventsLeft > 0

\* the step just taken ran handleDisconnect for the reason given
Disconnected(reasons) ==
  /\ lastOp'.op \in {"onDesktopDisconnected", "handleDisconnect"}
  /\ lastOp'.arg \in reasons

\* the step just taken armed a reconnect timeout of the delay its attempt has
ReconnectArmed ==
  /\ link'.reconnectTimer
  /\ link'.reconnectAttempts = link.reconnectAttempts + 1
  /\ \E t \in link'.timers \ link.timers :
       t.delay = ReconnectDelay(link'.reconnectAttempts)

\* C25: when the PONG timeout fires, or the PING of a tick cannot be sent,
\* the link is Disconnected (connected = false, no ping interval and no PONG
\* timeout left, this.ws dropped), the engine is told if the link was open,
\* and a reconnect timeout is armed; a state update or any other frame that
\* is not a PONG leaves an armed PONG timeout armed, and a PONG clears it and
\* leaves the link as it is.
C25_HeartbeatForcesDisconnect ==
  [][/\ Disconnected({"pingTimeout", "sendFailed"})
        => /\ ~connected'
           /\ ~link'.pingInterval /\ ~link'.pingTimeout
           /\ link'.ws = "null"
           /\ connected => lastOp'.op = "onDesktopDisconnected"
           /\ ReconnectArmed
     /\ /\ link.pingTimeout
        /\ \/ lastOp'.op = "handleStateUpdate"
           \/ lastOp'.op = "handleMessage" /\ lastOp'.arg # "PONG"
        => link'.pingTimeout /\ link'.pingInterval /\ connected'
     /\ link.pingTimeout /\ lastOp'.op = "handleMessage" /\ lastOp'.arg = "PONG"
        => /\ ~link'.pingTimeout
           /\ link'.pingInterval /\ connected' /\ link'.ws = link.ws]_vars

\* a PING went unanswered on an open link: the timeout has fired, the link
\* is Disconnected and a reconnect timeout is armed
C25_Witness ==
  /\ lastOp = Op("onDesktopDisconnected", "", "pingTimeout")
  /\ ~connected /\ link.ws = "null"
  /\ link.reconnectTimer /\ link.timers # {}

\* min(1000 * 1.5^(n-1), 30000) for n = 1..10, in units of 1/512 ms:
\* 1000, 1500, 2250, 3375, 5062.5, 7593.75, 11390.625, 17085.9375,
\* 25628.90625 and 30000 ms
Backoff ==
  <<512000, 768000, 1152000, 1728000, 2592000, 3888000, 5832000, 8748000,
    13122000, 15360000>>

\* the reconnect timeouts the step just taken armed
Armed == link'.timers \ link.timers

\* C26: the timeout armed on the n-th consecutive attempt has the delay
\* min(base * 1.5^(n-1), maxDelay), which never exceeds the maximum; the
\* attempt counter stays within 0..MAX_RECONNECT_ATTEMPTS; and as long as the
\* link has not opened and the counter has not run out, each delay armed is
\* at least the delay armed before it.
C26_ReconnectBackoff ==
  [][/\ link'.reconnectAttempts \in 0..MAX_RECONNECT_ATTEMPTS
     /\ \A t \in Armed :
          /\ link'.reconnectAttempts \in 1..MAX_RECONNECT_ATTEMPTS
          /\ t.delay = Backoff[link'.reconnectAttempts]
          /\ t.delay <= RECONNECT_DELAY_MAX * DelayUnit
          /\ link.lastDelay # 0 => t.delay >= link.lastDelay]_vars

\* the step just taken ran handleDisconnect
DisconnectHandled ==
  lastOp'.op \in {"onDesktopDisconnected", "handleDisconnect"}

\* C27: a disconnect that finds the attempt counter at MAX_RECONNECT_ATTEMPTS
\* arms no timeout and sets the counter to 0; the periodic check of a link
\* that has no socket and no reconnect handle opens a socket; and from every
\* state where the link has no socket, a state where a socket is connecting
\* is eventually reached.
C27_RetriesForever ==
  /\ [][/\ DisconnectHandled /\ link.reconnectAttempts = MAX_RECONNECT_ATTEMPTS
           => Armed = {} /\ link'.reconnectAttempts = 0
        /\ /\ lastOp'.op = "connectionCheck"
           /\ link.ws = "null" /\ ~link.reconnectTimer
           => link'.ws = "connecting" /\ link'.reconnectAttempts = 0]_vars
  /\ (link.ws = "null") ~> (link.ws = "connecting")

\* the tenth attempt has failed and the disconnect after it found the
\* counter used up: no timeout is armed and only the periodic check is left
C27_Witness ==
  /\ lastOp.op = "handleDisconnect"
  /\ link.reconnectAttempts = 0
  /\ link.ws = "null"
  /\ ~link.reconnectTimer /\ link.timers = {}

\* the engine holds no desktop source: not as the Active Slot, not in Paused
\* History, not as the target of the Pending Resume
NoDesktopSource ==
  /\ activeMedia.mediaId \notin Desktop
  /\ Ids(pausedStack) \cap Desktop = {}
  /\ Target(pendingResume) \notin Desktop

\* C28: while the Desktop Link is not open the engine refers to no desktop
\* source: the Active Slot is not a desktop source, Paused History has no
\* desktop entry and no Pending Resume targets a desktop source.
C28_NoDesktopWhileDown == ~connected => NoDesktopSource

\* the step just taken handled a frame that JSON.parse rejects, that is not
\* an object, or whose type is none the connector knows
FrameDropped ==
  lastOp'.op = "handleMessage" /\ lastOp'.arg \in {"malformed", "null", "unknown"}

\* C29: a frame that does not parse or whose type is unknown changes nothing:
\* the connection state, the socket, the heartbeat and reconnect timers, the
\* stored desktop snapshot, the debounce timer and the whole engine state are
\* what they were, nothing is sent or raised, and an Open link stays Open.
C29_BadFrameDropped ==
  [][FrameDropped =>
       /\ connected' = connected
       /\ link' = link
       /\ desktopState' = desktopState
       /\ pauseDebounce' = pauseDebounce
       /\ engineVars' = engineVars
       /\ emitted' = <<>> /\ ~broadcast' /\ ~threw'
       /\ unpaused' = unpaused /\ volumes' = volumes]_vars

\* a frame that does not parse arrived on the Open link while a PONG was
\* awaited and a desktop source was playing: all of it is still there
C29_Witness ==
  /\ lastOp = Op("handleMessage", "", "malformed")
  /\ connected /\ link.ws = "open"
  /\ link.pingInterval /\ link.pingTimeout
  /\ ~IsNull(desktopState.activeMedia)
  /\ activeMedia.mediaId \in Desktop

\* the Pending Resume targets a browser source that is not in allMedia: the
\* volume reset of a cancellation finds the media gone and calls
\* cancelPendingResume again while this.pendingResume is still set
ResetReenters ==
  /\ ~IsNull(pendingResume)
  /\ ~IsDesktopMedia(pendingResume.media)
  /\ pendingResume.media.mediaId \notin allMedia

\* C30: in every reachable state cancelPendingResume, with either flag,
\* returns with the Pending Resume cleared and its timers removed, without
\* raising and without being entered again through the volume reset.
C30_CancelTerminates ==
  /\ ~ResetReenters
  /\ \A requeue \in BOOLEAN :
       LET r == CancelPendingResume(St, requeue)
       IN /\ IsNull(r.pendingResume)
          /\ ~r.threw
          /\ \A t \in r.resumeTimers : t.id # pendingResume.timeoutId

\* the step just taken continued playMediaWithFadeIn for the media of the
\* step: after one of its deliveries settled, or as a run of its fade interval
ResumeContinued ==
  \/ lastOp'.op \in {"playNoFade", "fadeSetVolume1", "fadePlay", "fadeSetVolume2"}
  \/ lastOp'.op = "fadeStep"

\* the intents of the step just taken that play m or set its volume
ResumeIntents(m) ==
  {i \in 1..Len(emitted') :
     emitted'[i].mediaId = m /\ emitted'[i].action \in {"play", "setVolume"}}

\* C31: once the Pending Resume of a target has been cancelled, what is left
\* of its resume sends nothing more: a continuation of playMediaWithFadeIn,
\* or a run of its fade interval, that finds the Pending Resume no longer
\* naming its media emits no play and no setVolume intent for that media.
C31_CancelledResumeIsSilent ==
  [][ResumeContinued /\ Target(pendingResume) # lastOp'.mediaId
       => ResumeIntents(lastOp'.mediaId) = {}]_vars

\* a fade-in of m is still under way: its resume timer is armed, one of its
\* deliveries is awaited, or its fade interval is running
FadeUnderWay(m) ==
  \/ \E t \in resumeTimers : t.media.mediaId = m
  \/ \E k \in tasks : k.mediaId = m /\ k.pc \in
       {"fadeSetVolume1", "fadePlay", "fadeSetVolume2", "fadeStep"}
  \/ \E f \in fadeTimers : f.mediaId = m

\* the step just taken stopped the running fade of m before its last step:
\* m's fade interval was cleared by a cancelPendingResume, not by the fade's
\* own callback
FadeCancelled(m) ==
  /\ \E f \in fadeTimers : f.mediaId = m
  /\ ~\E f \in fadeTimers' : f.mediaId = m
  /\ ~(lastOp'.op = "fadeStep" /\ lastOp'.mediaId = m)

\* C32: when a cancelPendingResume stops the fade of a registered source
\* while steps remain, the last volume sent to the source is its original
\* volume, or a fade of the source is still under way (it will be completed
\* or was armed again).
C32_NoPartialFade ==
  [][\A m \in Browser :
       FadeCancelled(m) /\ m \in allMedia' =>
         \/ volumes'[m] = MulSmall(One, OriginalVolume)
         \/ FadeUnderWay(m)']_vars

\* the last operation was the popup's pause of source x while x was the
\* Active source (controlMedia is waiting for the delivery of its pause
\* intent and remembers x as the stopped source); x's Paused Entry is
\* manuallyPaused = true
PopupPaused(x) ==
  /\ lastOp = Op("controlMedia", x, "pause")
  /\ \E k \in tasks : k.pc = "controlMedia.resumed" /\ k.prev.mediaId = x
  /\ x \in ManualIds(pausedStack)

\* the step just taken processed a report of source x that follows a popup
\* pause: the adapter's echo pause (manual = false) or the play report of a
\* heartbeat that was in flight
FollowUpReport(x) ==
  /\ lastOp'.mediaId = x
  /\ \/ lastOp'.op = "handleMediaPause" /\ lastOp'.arg = "auto"
     \/ lastOp'.op = "handleMediaPlay" /\ lastOp'.arg = "ok"

\* C33: right after the popup's pause of source x, whose Paused Entry is
\* manuallyPaused = true, processing x's echo pause report or a play report
\* of x that was in flight keeps that entry manuallyPaused = true and arms
\* no Pending Resume for x.
C33_PopupPauseSticky ==
  [][\A x \in Browser :
       PopupPaused(x) /\ FollowUpReport(x) =>
         /\ x \in ManualIds(pausedStack')
         /\ Target(pendingResume') # x]_vars

\* C34: the Active Slot, when it holds a source, holds a desktop source or a
\* source of the Source Registry.
C34_ActiveIsRegistered ==
  ~IsNull(activeMedia) =>
    activeMedia.mediaId \in Desktop \/ activeMedia.mediaId \in allMedia

\* the step just taken processed a pause report of a source that had no
\* Paused Entry and has one now: the entry paused last
PausedNow(x) ==
  /\ lastOp'.op = "handleMediaPause" /\ lastOp'.mediaId = x
  /\ x \notin Ids(pausedStack)
  /\ x \in Ids(pausedStack')

\* C35: Paused History is ordered most recently paused first: the entry a
\* pause report inserts precedes every entry that was there before, also when
\* the report is for a source that is not Active.
C35_LatestPauseFirst ==
  [][\A x \in Browser :
       PausedNow(x) =>
         \A i \in 1..Len(pausedStack') :
           pausedStack'[i].mediaId \in Ids(pausedStack) =>
             IndexOf(pausedStack', x) < i]_vars

\* the step just taken processed a register or play report of a source that
\* the policy excludes: a blacklisted origin, or title and origin unresolved
ExcludedReport ==
  /\ lastOp'.op \in {"handleMediaRegistered", "handleMediaPlay"}
  /\ lastOp'.arg \in {"blacklisted", "unknown"}

\* C36: a register or play report of a policy-excluded source leaves Source
\* Registry, Active Slot, Paused History and Pending Resume as they were and
\* sends no pause intent.
C36_ExcludedHasNoEffect ==
  [][ExcludedReport =>
       /\ allMedia' = allMedia
       /\ activeMedia'.mediaId = activeMedia.mediaId
       /\ pausedStack' = pausedStack
       /\ pendingResume' = pendingResume
       /\ \A x \in Browser \cup Desktop :
            PauseIntentsTo(emitted', x) = 0]_vars

\* C37: while the Active Slot holds a source, no resume timer is waiting to
\* fire.
C37_ArmedOnlyWhenIdle ==
  ~IsNull(activeMedia) => resumeTimers = {}

\* x was paused by the engine to make room: it has a Paused Entry with
\* manuallyPaused = false, or it is the target of the Pending Resume and was
\* taken from such an entry
AutoPaused(x) ==
  \/ \E i \in 1..Len(pausedStack) :
       pausedStack[i].mediaId = x /\ ~pausedStack[i].manuallyPaused
  \/ Target(pendingResume) = x /\ ~pendingResume.media.manuallyPaused

\* x can still be resumed: it has a Paused Entry or is the Pending Resume's
\* target
Reachable(x) == x \in Ids(pausedStack) \/ Target(pendingResume) = x

\* the step just taken let x go for a reason the engine knows: x plays again
\* (its play report, the popup's play, the steps of its own auto-resume, x
\* Active), x was unregistered, its tab closed or the desktop link dropped
Released(x) ==
  \/ activeMedia'.mediaId = x
  \/ /\ lastOp'.mediaId = x
     /\ lastOp'.op \in {"handleMediaPlay", "handleMediaPlay.resumed",
                        "handleMediaUnregistered", "playMediaWithFadeIn",
                        "playNoFade", "fadeSetVolume1", "fadePlay",
                        "fadeSetVolume2", "fadeStep"}
  \/ lastOp' = Op("controlMedia", x, "play")
  \/ lastOp'.op = "handleTabClosed"
       /\ lastOp'.arg = (IF TabOf(x) = 1 THEN "tab1" ELSE "tab2")
  \/ lastOp'.op \in {"onDesktopDisconnected", "handleDisconnect"}

\* C38: a source the engine paused to make room stays a Paused Entry or the
\* Pending Resume's target until it plays again, is unregistered, its tab
\* closes or the desktop link drops; cancelling a Pending Resume does not
\* make its target vanish from both.
C38_AutoPausedNotLost ==
  [][\A x \in Browser \cup Desktop :
       AutoPaused(x) /\ ~Released(x) => Reachable(x)']_vars

\* the step just taken handled an event about the socket the link holds: its
\* close, the start of its closing handshake, a heartbeat failure on it or a
\* liveness mismatch
CurrentSocketEvent ==
  \/ lastOp'.op = "closing"
  \/ /\ lastOp'.op \in {"onDesktopDisconnected", "handleDisconnect"}
     /\ lastOp'.arg \in {"", "sendFailed", "pingTimeout", "check"}

\* C39: the link leaves Open only through an event about its current socket;
\* the late close event of a socket that a forced disconnect abandoned leaves
\* an Open link open and connected, keeps its desktop snapshot and arms no
\* reconnect timer.
C39_StaleCloseIgnored ==
  [][link.ws = "open" =>
       /\ link'.ws # "open" => CurrentSocketEvent
       /\ lastOp'.arg = "stale" =>
            /\ link'.ws = "open" /\ connected' = connected
            /\ desktopState' = desktopState
            /\ link'.timers = link.timers]_vars

\* C40: the source in the Active Slot has no Paused Entry.
C40_ActiveNotInHistory ==
  ~IsNull(activeMedia) => activeMedia.mediaId \notin Ids(pausedStack)








====
